---- MODULE Spec2Model ----
(***************************************************************************)
(* State-machine model of the voting system's trust core:                  *)
(*   - VoteService (vote-api service): registerVoter / castVote            *)
(*   - VotingRegistry (stateful contract): registerVote / closeBallot      *)
(*   - ShamirSecretSharing: split / combine over a prime field             *)
(*   - ThresholdVotingSystem: key shares, partial decryptions, tally       *)
(*   - voter registry Merkle tree: build, generate proof, verify proof     *)
(*   - IncrementalMerkleTree: append, checkpoints, proofs, verifyUpdate    *)
(*   - the view of fewer than threshold shares of a split secret           *)
(* Each component has its own specification; the variables of the other    *)
(* components stay at their initial value in it.                           *)
(***************************************************************************)
EXTENDS Integers, Sequences, FiniteSets, TLC

VARIABLES
    voters,        \* VoteService.voters: voterId -> voter record (or NoVoter)
    votes,         \* VoteService.votes: the Map voteId -> vote, as its set of values
    nullifiers,    \* VoteService.nullifiers: Set of nullifier hashes
    calls,         \* the castVote invocations: position and locals of each
    now,           \* Date.now()
    rNullifiers,   \* VotingRegistry.nullifiers (FixedArray)
    rVoteCounts,   \* VotingRegistry.voteCounts (FixedArray)
    rIsActive,     \* VotingRegistry.isActive
    rTotalVotes,   \* VotingRegistry.totalVotes
    rProps,        \* VotingRegistry constructor props: candidateCount, startTime, endTime
    rAccepted,     \* history: how many registerVote calls succeeded per nullifier
    rLast,         \* history: the last public call of the contract and its outcome
    shSecret,      \* split's secret argument
    shK,           \* split's threshold argument
    shN,           \* split's totalShares argument
    shShares,      \* the array split returned
    shPicked,      \* the share positions handed to combine
    shResult,      \* the value combine returned
    shPc,          \* "init", "split", "threw" or "combined"
    tThreshold,    \* ThresholdVotingSystem.config.threshold
    tActive,       \* config.authorities[..].active, by authority id
    tShares,       \* ThresholdVotingSystem.shares: authorityId -> SecretShare[]
    tPartials,     \* partialDecryptions: candidateId -> PartialDecryption[]
    tEncVotes,     \* encryptedVotes: candidateId -> bigint[]
    tRet,          \* the last call and the value it returned
    mkLeaves,      \* the commitments the registry tree was built from
    mkRet,         \* Merkle registry: the last call and the value it returned
    imLeaves,      \* IncrementalMerkleTree.leaves
    imRoot,        \* IncrementalMerkleTree.root
    imCheckpoints, \* IncrementalMerkleTree.checkpoints
    imMaxCheckpoints, \* IncrementalMerkleTree.maxCheckpoints
    imRootAfter,   \* history: the root after each append
    imRet,         \* IncrementalMerkleTree: the last call and the value it returned
    hdThreshold,   \* split's threshold argument
    hdTotalShares, \* split's totalShares argument
    hdSeen,        \* the share positions seen and the values seen there
    hdDraws,       \* per secret, the number of coefficient draws giving those values
    invArg,        \* modInverse's operand a
    invRet,        \* modInverse: whether it threw and the value it returned
    rcConfig,      \* recoveryConfigs entry of the voter
    rcShares,      \* recoveryShares entry of the voter
    rcRequests,    \* recoveryRequests: request id -> request
    rcGuardians,   \* the guardian objects: active flag and shareIndex
    rcKey,         \* the votingKey of the last setupRecovery
    rcNow,         \* Date.now() of the recovery system
    rcSetups,      \* setupRecovery and updateGuardians calls that stored a configuration
    rcRet,         \* what executeRecovery returned, when it was the last call
    dvKey,         \* the votingKey of the last setupDevices
    dvThreshold,   \* the threshold of the last setupDevices
    dvShares,      \* deviceShares entry of the voter: device id -> share, in insertion order
    dvRet,         \* what the last MultiDeviceRecovery call returned
    smDepth,       \* SparseMerkleTree.depth
    smLeaves,      \* SparseMerkleTree.leaves: index -> value
    smRoot,        \* SparseMerkleTree.root
    smInserts,     \* inserts that stored a leaf
    smRet,         \* what the last SparseMerkleTree call returned
    crFirst,       \* first argument of the derivation (value, voterId)
    crSecond,      \* second argument (randomness, ballotId)
    crRet,         \* the derivation applied, whether it threw, and its result
    blBallots,     \* BallotService.ballots: ballot id to status and merkleRoot
    blCandidates,  \* BallotService.candidates: ballot id to its candidates
    blRet,         \* the last BallotService call and its outcome
    rvVerified,    \* RealTimeVerifier.verifiedLeaves
    rvPublished,   \* RealTimeVerifier.publishedRoots: the roots published
    rvPlaced,      \* history: the hash and the position of each addVote that returned
    rvRet,         \* the last RealTimeVerifier call and what it returned
    dgDelegations, \* DelegationRegistry.delegations
    dgByDelegator, \* delegationsByDelegator: delegatorId -> delegateId
    dgByDelegate,  \* delegationsByDelegate: delegateId -> set of delegatorIds
    dgVotesCast,   \* votesCast
    dgCalls,       \* the calls made on the registry
    dgRet          \* the last DelegationRegistry call and what it returned

vsVars  == <<voters, votes, nullifiers, calls, now>>
regVars == <<rNullifiers, rVoteCounts, rIsActive, rTotalVotes, rProps, rAccepted, rLast>>
shVars  == <<shSecret, shK, shN, shShares, shPicked, shResult, shPc>>
thVars  == <<tThreshold, tActive, tShares, tPartials, tEncVotes, tRet>>
mkVars  == <<mkLeaves, mkRet>>
imVars  == <<imLeaves, imRoot, imCheckpoints, imMaxCheckpoints, imRootAfter, imRet>>
hdVars  == <<hdThreshold, hdTotalShares, hdSeen, hdDraws>>
invVars == <<invArg, invRet>>
rcVars  == <<rcConfig, rcShares, rcRequests, rcGuardians, rcKey, rcNow, rcSetups, rcRet>>
dvVars  == <<dvKey, dvThreshold, dvShares, dvRet>>
smVars  == <<smDepth, smLeaves, smRoot, smInserts, smRet>>
crVars  == <<crFirst, crSecond, crRet>>
blVars  == <<blBallots, blCandidates, blRet>>
rvVars  == <<rvVerified, rvPublished, rvPlaced, rvRet>>
dgVars  == <<dgDelegations, dgByDelegator, dgByDelegate, dgVotesCast, dgCalls, dgRet>>
vars    == <<vsVars, regVars, shVars, thVars, mkVars, imVars, hdVars, invVars, rcVars, dvVars, smVars, crVars, blVars, rvVars, dgVars>>

(***************************************************************************)
(* Hashing.  sha256 is taken collision-free: the digest of x is a tagged   *)
(* copy of x, so two digests are equal exactly when their inputs are.      *)
(***************************************************************************)
Sha256(x) == <<"sha256", x>>

(***************************************************************************)
(* VoteService                                                             *)
(***************************************************************************)
\* Identifiers are byte strings; "v" \o "bb" and "vb" \o "b" are the same bytes.
VoterIds     == {"v", "vb"}
BallotIds    == {"b", "bb"}
CandidateIds == {"c1", "c2"}

\* Number of castVote invocations followed, and the last clock value.
MaxCalls == 2
MaxClock == 1

CallIds == 1..MaxCalls

NoVoter == [registered |-> FALSE]

\* crypto.generateNullifier(voterId bytes, ballotId bytes): Hash(voter || election)
VsGenerateNullifier(voterId, ballotId) == Sha256(voterId \o ballotId)

\* voteId = hash(nullifier || Date.now().toString())
VoteId(nullifier, t) == Sha256(<<nullifier, t>>)

IdleCall == [pc |-> "idle", voterId |-> "", ballotId |-> "", candidateId |-> "",
             proofOk |-> FALSE, concurrent |-> {}, result |-> "none"]

VsInit ==
    /\ voters = [v \in VoterIds |-> NoVoter]
    /\ votes = {}
    /\ nullifiers = {}
    /\ calls = [c \in CallIds |-> IdleCall]
    /\ now = 0

\* registerVoter(dto): no await inside, so it runs to completion in one step.
RegisterVoter(voterId, ballotId) ==
    /\ ~voters[voterId].registered        \* else throws 'Voter already registered'
    /\ voters' = [voters EXCEPT ![voterId] =
                    [registered |-> TRUE, ballotId |-> ballotId, hasVoted |-> FALSE]]
    /\ UNCHANGED <<votes, nullifiers, calls, now>>

\* castVote without its hasVoted and nullifier checks.
CastVotePrefix_NoDoubleVoteCheck(voterId, ballotId) ==
    IF ~voters[voterId].registered THEN "NotRegistered" ELSE "await"

\* The outcome of the synchronous prefix of castVote (lines 48-73): the reason it
\* throws, or "await" when it reaches `await this.zkProof.verifyProof(...)`.
CastVotePrefix(voterId, ballotId) ==
    IF ~voters[voterId].registered THEN "NotRegistered"
    ELSE IF voters[voterId].hasVoted THEN "AlreadyVoted"
    ELSE IF VsGenerateNullifier(voterId, ballotId) \in nullifiers THEN "DoubleVote"
    ELSE "await"

\* castVote from its call to its first suspension point or throw.
CastVoteStart(c, voterId, ballotId, candidateId, proofOk) ==
    /\ calls[c].pc = "idle"
    /\ \A d \in CallIds : d < c => calls[d].pc # "idle"
    /\ LET outcome == CastVotePrefix(voterId, ballotId)
           pending == {d \in CallIds : calls[d].pc = "awaiting"}
       IN calls' = [calls EXCEPT ![c] =
             [pc |-> IF outcome = "await" THEN "awaiting" ELSE "done",
              voterId |-> voterId, ballotId |-> ballotId,
              candidateId |-> IF outcome = "await" THEN candidateId ELSE "",
              proofOk |-> proofOk,
              concurrent |-> pending,
              result |-> IF outcome = "await" THEN "none" ELSE outcome]]
    /\ UNCHANGED <<voters, votes, nullifiers, now>>

\* The vote object built at lines 88-97 (the proof blob, the hiding commitment
\* and the txId placeholder carry no state the service reads back).
NewVote(call, t) ==
    LET n == VsGenerateNullifier(call.voterId, call.ballotId)
    IN [id |-> VoteId(n, t), ballotId |-> call.ballotId,
        candidateId |-> call.candidateId, nullifier |-> n]

\* Map.set: an entry with the same key is replaced.
MapSet(map, entry) == {e \in map : e.id # entry.id} \cup {entry}

\* The state written by lines 99-101 of castVote.
CastVoteCommit(c) ==
    LET call == calls[c]
        vote == NewVote(call, now)
    IN /\ votes' = MapSet(votes, vote)
       /\ nullifiers' = nullifiers \cup {vote.nullifier}
       /\ voters' = [voters EXCEPT ![call.voterId].hasVoted = TRUE]

\* castVote recording the vote before it looks at the proof's verdict.
CastVoteResume_CommitBeforeVerify(c) ==
    /\ calls[c].pc = "awaiting"
    /\ CastVoteCommit(c)
    /\ calls' = [calls EXCEPT ![c].pc = "done", ![c].candidateId = "",
                 ![c].result = IF calls[c].proofOk THEN "Accepted" ELSE "InvalidProof"]
    /\ UNCHANGED now

\* castVote resumed after the await (lines 74-110).
CastVoteResume(c) ==
    /\ calls[c].pc = "awaiting"
    /\ IF calls[c].proofOk
          THEN /\ CastVoteCommit(c)
               /\ calls' = [calls EXCEPT ![c].pc = "done", ![c].result = "Accepted",
                                         ![c].candidateId = ""]
          ELSE /\ calls' = [calls EXCEPT ![c].pc = "done", ![c].result = "InvalidProof",
                                         ![c].candidateId = ""]
               /\ UNCHANGED <<voters, votes, nullifiers>>
    /\ UNCHANGED now

\* Time passes.
Tick ==
    /\ now < MaxClock
    /\ now' = now + 1
    /\ UNCHANGED <<voters, votes, nullifiers, calls>>

\* The other components are not touched by a VoteService step.
VsFrame == UNCHANGED <<regVars, shVars, thVars, mkVars, imVars, hdVars, invVars, rcVars, dvVars, smVars, crVars, blVars, rvVars, dgVars>>

VsNext ==
    \/ \E v \in VoterIds, b \in BallotIds : RegisterVoter(v, b) /\ VsFrame
    \/ \E c \in CallIds, v \in VoterIds, b \in BallotIds, k \in CandidateIds,
          p \in BOOLEAN : CastVoteStart(c, v, b, k, p) /\ VsFrame
    \/ \E c \in CallIds : CastVoteResume(c) /\ VsFrame
    \/ Tick /\ VsFrame

\* A castVote may start only when no other castVote is in progress.
NoCallPending == \A d \in CallIds : calls[d].pc # "awaiting"

VsSeqNext ==
    \/ \E v \in VoterIds, b \in BallotIds : RegisterVoter(v, b) /\ VsFrame
    \/ \E c \in CallIds, v \in VoterIds, b \in BallotIds, k \in CandidateIds,
          p \in BOOLEAN : NoCallPending /\ CastVoteStart(c, v, b, k, p) /\ VsFrame
    \/ \E c \in CallIds : CastVoteResume(c) /\ VsFrame
    \/ Tick /\ VsFrame

(***************************************************************************)
(* VotingRegistry (stateful contract)                                      *)
(***************************************************************************)
\* Length of the nullifiers array (FixedArray<Sha256, 10000>) and of the
\* voteCounts array (FixedArray<bigint, 50>), scaled down.
NullifierSlots == 2
VoteCountSlots == 2

\* Largest transaction time, and the number of successful votes followed.
MaxTime  == 2
MaxVotes == 3

\* Sha256(toByteString('')): the value that marks an unused slot.
EmptyHash == Sha256("")

\* Nullifiers a transaction may carry (the sentinel value included).
RegNullifiers == {EmptyHash, Sha256("n1"), Sha256("n2"), Sha256("n3")}

Times == 0..MaxTime

\* fill(value, n)
Fill(value, n) == [i \in 1..n |-> value]

\* The contract as deployed: constructor lines 66-87.
RegInit ==
    /\ rProps \in [candidateCount : 1..VoteCountSlots, startTime : Times, endTime : Times]
    /\ rIsActive = TRUE
    /\ rTotalVotes = 0
    /\ rNullifiers = Fill(EmptyHash, NullifierSlots)
    /\ rVoteCounts = Fill(0, VoteCountSlots)
    /\ rAccepted = [n \in RegNullifiers |-> 0]
    /\ rLast = [op |-> "deploy", ok |-> TRUE, locktime |-> 0]

\* hasNullifier: linear scan of the array.
HasNullifier(arr, nullifier) == \E i \in 1..Len(arr) : arr[i] = nullifier

\* addNullifier: the first empty slot takes the nullifier; with no empty slot the
\* loop ends without writing.
AddNullifier(arr, nullifier) ==
    IF \E i \in 1..Len(arr) : arr[i] = EmptyHash
    THEN LET first == CHOOSE i \in 1..Len(arr) :
                         /\ arr[i] = EmptyHash
                         /\ \A j \in 1..(i - 1) : arr[j] # EmptyHash
         IN [arr EXCEPT ![first] = nullifier]
    ELSE arr

\* registerVote without its 'Ballot closed' assertion.
RegisterVoteAsserts_NoActiveCheck(nullifier, proofLen, candidateIndex, locktime, outputsOk) ==
    /\ locktime >= rProps.startTime /\ locktime <= rProps.endTime
    /\ ~HasNullifier(rNullifiers, nullifier)
    /\ candidateIndex >= 0 /\ candidateIndex < rProps.candidateCount
    /\ proofLen > 0
    /\ outputsOk

\* The assertions of registerVote (and of verifyVoteProof, which it calls): the
\* transaction is valid exactly when all of them hold.
RegisterVoteAsserts(nullifier, proofLen, candidateIndex, locktime, outputsOk) ==
    /\ rIsActive                                                   \* 'Ballot closed'
    /\ locktime >= rProps.startTime /\ locktime <= rProps.endTime  \* 'Outside voting period'
    /\ ~HasNullifier(rNullifiers, nullifier)                       \* 'Double vote detected'
    /\ candidateIndex >= 0 /\ candidateIndex < rProps.candidateCount
    /\ proofLen > 0                                                \* 'Empty proof'
    /\ outputsOk                                                   \* 'hashOutputs mismatch'

\* registerVote that increments the count of the candidate after the chosen
\* one, modulo the number of slots.
RegisterVote_CountsNextCandidate(nullifier, proofLen, candidateIndex, locktime, outputsOk) ==
    /\ rTotalVotes < MaxVotes
    /\ IF RegisterVoteAsserts(nullifier, proofLen, candidateIndex, locktime, outputsOk)
       THEN /\ rNullifiers' = AddNullifier(rNullifiers, nullifier)
            /\ rVoteCounts' = [rVoteCounts EXCEPT
                                  ![((candidateIndex + 1) % VoteCountSlots) + 1] = @ + 1]
            /\ rTotalVotes' = rTotalVotes + 1
            /\ rAccepted' = [rAccepted EXCEPT ![nullifier] = @ + 1]
            /\ rLast' = [op |-> "registerVote", ok |-> TRUE, locktime |-> locktime,
                         candidateIndex |-> candidateIndex]
       ELSE /\ rLast' = [op |-> "registerVote", ok |-> FALSE, locktime |-> locktime]
            /\ UNCHANGED <<rNullifiers, rVoteCounts, rTotalVotes, rAccepted>>
    /\ UNCHANGED <<rIsActive, rProps>>

\* A transaction calling registerVote.  A failed assertion invalidates the
\* transaction, and the contract state stays as it was.
RegisterVote(nullifier, proofLen, candidateIndex, locktime, outputsOk) ==
    /\ rTotalVotes < MaxVotes
    /\ IF RegisterVoteAsserts(nullifier, proofLen, candidateIndex, locktime, outputsOk)
       THEN /\ rNullifiers' = AddNullifier(rNullifiers, nullifier)
            /\ rVoteCounts' = [rVoteCounts EXCEPT ![candidateIndex + 1] = @ + 1]
            /\ rTotalVotes' = rTotalVotes + 1
            /\ rAccepted' = [rAccepted EXCEPT ![nullifier] = @ + 1]
            /\ rLast' = [op |-> "registerVote", ok |-> TRUE, locktime |-> locktime,
                         candidateIndex |-> candidateIndex]
       ELSE /\ rLast' = [op |-> "registerVote", ok |-> FALSE, locktime |-> locktime]
            /\ UNCHANGED <<rNullifiers, rVoteCounts, rTotalVotes, rAccepted>>
    /\ UNCHANGED <<rIsActive, rProps>>

\* A transaction calling closeBallot.
CloseBallot(sigOk, outputsOk) ==
    /\ IF sigOk /\ rIsActive /\ outputsOk
       THEN /\ rIsActive' = FALSE
            /\ rLast' = [op |-> "closeBallot", ok |-> TRUE, locktime |-> 0]
       ELSE /\ rLast' = [op |-> "closeBallot", ok |-> FALSE, locktime |-> 0]
            /\ UNCHANGED rIsActive
    /\ UNCHANGED <<rNullifiers, rVoteCounts, rTotalVotes, rProps, rAccepted>>

RegFrame == UNCHANGED <<vsVars, shVars, thVars, mkVars, imVars, hdVars, invVars, rcVars, dvVars, smVars, crVars, blVars, rvVars, dgVars>>

RegNext ==
    \/ \E n \in RegNullifiers, proofLen \in 0..1, k \in (-1)..VoteCountSlots,
          t \in Times, o \in BOOLEAN : RegisterVote(n, proofLen, k, t, o) /\ RegFrame
    \/ \E sigOk \in BOOLEAN, o \in BOOLEAN : CloseBallot(sigOk, o) /\ RegFrame

(***************************************************************************)
(* ShamirSecretSharing                                                     *)
(***************************************************************************)
\* this.prime (2^256 - 2^32 - 977 in the source), scaled down to a small prime.
Prime == 7

\* Largest threshold and largest number of shares tried.
MaxThreshold == 3
MaxShares    == 4

Field == 0..(Prime - 1)

\* bigint % and / : the remainder takes the sign of the dividend, the quotient
\* is truncated toward zero.
JsRem(n, p) == IF n >= 0 THEN n % p ELSE -((-n) % p)
JsDiv(a, b) ==
    IF (a >= 0) = (b > 0) THEN (IF a >= 0 THEN a ELSE -a) \div (IF b > 0 THEN b ELSE -b)
    ELSE -((IF a >= 0 THEN a ELSE -a) \div (IF b > 0 THEN b ELSE -b))

\* mod written with the bare % operator.
Mod_BareRemainder(n, p) == JsRem(n, p)

\* mod(n, p) = ((n % p) + p) % p
Mod(n, p) == JsRem(JsRem(n, p) + p, p)

\* The while loop of modInverse; yields old_s.
RECURSIVE EuclidLoop(_, _, _, _)
EuclidLoop(old_r, r, old_s, s) ==
    IF r = 0 THEN old_s
    ELSE LET quotient == JsDiv(old_r, r)
         IN EuclidLoop(r, old_r - quotient * r, s, old_s - quotient * s)

\* modInverse(a, p)
ModInverse(a, p) == Mod(EuclidLoop(a, p, 1, 0), p)

\* The for loop of evaluatePolynomial from coefficient i on.
RECURSIVE EvalLoop(_, _, _, _, _)
EvalLoop(coefficients, x, i, result, xPower) ==
    IF i > Len(coefficients) THEN result
    ELSE EvalLoop(coefficients, x, i + 1,
                  Mod(result + Mod(coefficients[i] * xPower, Prime), Prime),
                  Mod(xPower * x, Prime))

\* evaluatePolynomial(coefficients, x)
EvaluatePolynomial(coefficients, x) == EvalLoop(coefficients, x, 1, 0, 1)

\* randomBigInt never returning 0.
RandomCoefficients_NeverZero(threshold) ==
    [1..(IF threshold > 1 THEN threshold - 1 ELSE 0) -> Field \ {0}]

\* The values randomBigInt may return for the threshold - 1 coefficients.
RandomCoefficients(threshold) ==
    [1..(IF threshold > 1 THEN threshold - 1 ELSE 0) -> Field]

\* split that never pushes the random coefficients: a constant polynomial.
Split_ConstantPolynomial(secret, threshold, totalShares, random) ==
    [x \in 1..totalShares |-> EvaluatePolynomial(<<secret>>, x)]

\* split(secret, threshold, totalShares) for one draw of the random
\* coefficients; the caller has checked threshold <= totalShares.
Split(secret, threshold, totalShares, random) ==
    LET coefficients == <<secret>> \o random
    IN [x \in 1..totalShares |-> EvaluatePolynomial(coefficients, x)]

\* The inner forEach of combine: numerator and denominator of the Lagrange
\* coefficient of entry i of the share map, from entry j on.
RECURSIVE LagrangeLoop(_, _, _, _, _)
LagrangeLoop(shares, i, j, numerator, denominator) ==
    IF j > Len(shares) THEN <<numerator, denominator>>
    ELSE IF shares[i][1] # shares[j][1]
         THEN LagrangeLoop(shares, i, j + 1,
                           Mod(numerator * (-shares[j][1]), Prime),
                           Mod(denominator * (shares[i][1] - shares[j][1]), Prime))
         ELSE LagrangeLoop(shares, i, j + 1, numerator, denominator)

\* The outer forEach of combine, from entry i on.
RECURSIVE CombineLoop(_, _, _)
CombineLoop(shares, i, secret) ==
    IF i > Len(shares) THEN secret
    ELSE LET nd == LagrangeLoop(shares, i, 1, 1, 1)
             lagrangeCoeff == Mod(nd[1] * ModInverse(nd[2], Prime), Prime)
         IN CombineLoop(shares, i + 1,
                        Mod(secret + Mod(shares[i][2] * lagrangeCoeff, Prime), Prime))

\* combine(shares): shares is the Map in insertion order, a sequence of
\* <<shareIndex, shareValue>> entries with distinct indices; it is not empty
\* (combine throws 'No shares provided' otherwise).
Combine(shares) == CombineLoop(shares, 1, 0)

\* The Map { position -> share } of a set of 1-based positions, entered in
\* increasing order of position.
RECURSIVE ShareMap(_, _)
ShareMap(shares, positions) ==
    IF positions = {} THEN <<>>
    ELSE LET last == CHOOSE i \in positions : \A j \in positions : j <= i
         IN Append(ShareMap(shares, positions \ {last}), <<last, shares[last]>>)

ShInit ==
    /\ shSecret \in Field
    /\ shK \in 1..MaxThreshold
    /\ shN \in 1..MaxShares
    /\ shShares = <<>>
    /\ shPicked = {}
    /\ shResult = -1
    /\ shPc = "init"

\* split(secret, k, n)
ShSplit(random) ==
    /\ shPc = "init"
    /\ IF shK > shN
       THEN /\ shPc' = "threw"       \* 'Threshold cannot exceed total shares'
            /\ UNCHANGED shShares
       ELSE /\ shPc' = "split"
            /\ shShares' = Split(shSecret, shK, shN, random)
    /\ UNCHANGED <<shSecret, shK, shN, shPicked, shResult>>

\* combine on the shares at the given positions.
ShCombine(positions) ==
    /\ shPc = "split"
    /\ positions # {}
    /\ shPicked' = positions
    /\ shResult' = Combine(ShareMap(shShares, positions))
    /\ shPc' = "combined"
    /\ UNCHANGED <<shSecret, shK, shN, shShares>>

ShFrame == UNCHANGED <<vsVars, regVars, thVars, mkVars, imVars, hdVars, invVars, rcVars, dvVars, smVars, crVars, blVars, rvVars, dgVars>>

ShNext ==
    \/ \E random \in RandomCoefficients(shK) : ShSplit(random) /\ ShFrame
    \/ \E positions \in SUBSET (1..shN) : ShCombine(positions) /\ ShFrame

ShIdle ==
    /\ shSecret = 0
    /\ shK = 0
    /\ shN = 0
    /\ shShares = <<>>
    /\ shPicked = {}
    /\ shResult = -1
    /\ shPc = "idle"

(***************************************************************************)
(* ThresholdVotingSystem                                                   *)
(***************************************************************************)
\* config.authorities, in constructor order; "ax" is an id the system was not
\* configured with.
AuthorityList == <<"a1", "a2">>
AuthorityIds  == {AuthorityList[i] : i \in 1..Len(AuthorityList)}
AnyAuthorityId == AuthorityIds \cup {"ax"}
ThCandidates  == {0, 1}

\* Calls followed: setupKeyShares, accepted submissions, encrypted votes.
MaxSetups   == 1
MaxPartials == 3
MaxEncVotes == 1

\* Argument values of the calls.
ThMasterKeys     == {5}
ThCoefficients   == {0, 3}
ThPartialResults == {4}
ThEncryptedVotes == {6}

\* Array.prototype.find(a => a.id === authorityId): the authority's position
\* in config.authorities, 0 when there is none.
FindAuthority(authorityId) ==
    IF authorityId \in AuthorityIds
    THEN CHOOSE i \in 1..Len(AuthorityList) : AuthorityList[i] = authorityId
    ELSE 0

\* The system as constructed (threshold <= authorities.length, else it throws).
ThInit ==
    /\ tThreshold \in 1..Len(AuthorityList)
    /\ tActive \in [AuthorityIds -> BOOLEAN]
    /\ tShares = [a \in AuthorityIds |-> <<>>]
    /\ tPartials = [c \in ThCandidates |-> <<>>]
    /\ tEncVotes = [c \in ThCandidates |-> <<>>]
    /\ tRet = [op |-> "new"]

\* setupKeyShares(masterKey), for one draw of split's random coefficients.
SetupKeyShares(masterKey, random) ==
    /\ \A a \in AuthorityIds : Len(tShares[a]) < MaxSetups
    /\ LET shares == Split(masterKey, tThreshold, Len(AuthorityList), random)
       IN tShares' = [a \in AuthorityIds |->
                        Append(tShares[a],
                               [shareIndex |-> FindAuthority(a),
                                shareValue |-> shares[FindAuthority(a)]])]
    /\ tRet' = [op |-> "setupKeyShares"]
    /\ UNCHANGED <<tThreshold, tActive, tPartials, tEncVotes>>

\* castEncryptedVote(candidateId, encryptedVote)
CastEncryptedVote(candidateId, encryptedVote) ==
    /\ \A c \in ThCandidates : Len(tEncVotes[c]) < MaxEncVotes
    /\ tEncVotes' = [tEncVotes EXCEPT ![candidateId] = Append(@, encryptedVote)]
    /\ tRet' = [op |-> "castEncryptedVote"]
    /\ UNCHANGED <<tThreshold, tActive, tShares, tPartials>>

TotalPartials == Len(tPartials[0]) + Len(tPartials[1])

\* The two guards of submitPartialDecryption without the `!authority.active` test.
SubmissionAllowed_IgnoreActive(authorityId) ==
    /\ authorityId \in AuthorityIds
    /\ Len(tShares[authorityId]) > 0

\* The two guards of submitPartialDecryption (lines 256-265).
SubmissionAllowed(authorityId) ==
    /\ authorityId \in AuthorityIds
    /\ tActive[authorityId]
    /\ Len(tShares[authorityId]) > 0

\* submitPartialDecryption(authorityId, candidateId, partialResult, proof)
SubmitPartialDecryption(authorityId, candidateId, partialResult) ==
    /\ TotalPartials < MaxPartials
    /\ IF SubmissionAllowed(authorityId)
       THEN /\ tPartials' = [tPartials EXCEPT ![candidateId] =
                               Append(@, [authorityId |-> authorityId,
                                          partialResult |-> partialResult])]
            /\ tRet' = [op |-> "submitPartialDecryption",
                        authorityId |-> authorityId, ok |-> TRUE]
       ELSE /\ tRet' = [op |-> "submitPartialDecryption",
                        authorityId |-> authorityId, ok |-> FALSE]
            /\ UNCHANGED tPartials
    /\ UNCHANGED <<tThreshold, tActive, tShares, tEncVotes>>

\* Map.prototype.set on a Map kept as its sequence of <<key, value>> entries.
MapPut(map, key, value) ==
    IF \E i \in 1..Len(map) : map[i][1] = key
    THEN [i \in 1..Len(map) |-> IF map[i][1] = key THEN <<key, value>> ELSE map[i]]
    ELSE Append(map, <<key, value>>)

\* The forEach of tallyVotes over partialDecs.slice(0, threshold), from entry i
\* on: shareMap takes the first stored share of each entry's authority.
RECURSIVE TallyShareMap(_, _, _)
TallyShareMap(partialDecs, i, shareMap) ==
    IF i > Len(partialDecs) \/ i > tThreshold THEN shareMap
    ELSE LET authorityShares == tShares[partialDecs[i].authorityId]
         IN IF Len(authorityShares) > 0
            THEN TallyShareMap(partialDecs, i + 1,
                     MapPut(shareMap, authorityShares[1].shareIndex,
                            authorityShares[1].shareValue))
            ELSE TallyShareMap(partialDecs, i + 1, shareMap)

\* Whether tallyVotes pushes a result for the candidate, without the test on
\* shareMap.size.
CandidateTallied_CountOnly(candidateId) ==
    /\ Len(tPartials[candidateId]) > 0
    /\ Len(tPartials[candidateId]) >= tThreshold

\* Whether tallyVotes pushes a result for the candidate (lines 291-313).
CandidateTallied(candidateId) ==
    /\ Len(tPartials[candidateId]) > 0                 \* a key of the Map
    /\ Len(tPartials[candidateId]) >= tThreshold
    /\ Len(TallyShareMap(tPartials[candidateId], 1, <<>>)) >= tThreshold

\* The results array of tallyVotes, as the set of its elements; the empty set
\* stands for the null it returns when no candidate is tallied.  The key that
\* combine(shareMap) reconstructs is not used by the method and is no part of
\* a result.
TallyVotes ==
    {[candidateId |-> c,
      votes |-> Len(tEncVotes[c]),
      verified |-> TRUE,
      participatingAuthorities |->
          [i \in 1..tThreshold |-> tPartials[c][i].authorityId]]
       : c \in {d \in ThCandidates : CandidateTallied(d)}}

\* A call of tallyVotes.
DoTallyVotes ==
    /\ tRet' = [op |-> "tallyVotes", results |-> TallyVotes]
    /\ UNCHANGED <<tThreshold, tActive, tShares, tPartials, tEncVotes>>

\* getTallyStatus(): one entry per candidate that has submissions.
GetTallyStatus ==
    {[candidateId |-> c,
      submitted |-> Len(tPartials[c]),
      required |-> tThreshold,
      ready |-> Len(tPartials[c]) >= tThreshold]
       : c \in {d \in ThCandidates : Len(tPartials[d]) > 0}}

\* canTally(): some candidate has at least threshold submissions.
CanTally ==
    \E c \in ThCandidates :
        Len(tPartials[c]) > 0 /\ Len(tPartials[c]) >= tThreshold

\* toggleAuthorityStatus(authorityId, active)
ToggleAuthorityStatus(authorityId, active) ==
    /\ IF authorityId \in AuthorityIds
       THEN /\ tActive' = [tActive EXCEPT ![authorityId] = active]
            /\ tRet' = [op |-> "toggleAuthorityStatus", ok |-> TRUE]
       ELSE /\ tRet' = [op |-> "toggleAuthorityStatus", ok |-> FALSE]
            /\ UNCHANGED tActive
    /\ UNCHANGED <<tThreshold, tShares, tPartials, tEncVotes>>

ThFrame == UNCHANGED <<vsVars, regVars, shVars, mkVars, imVars, hdVars, invVars, rcVars, dvVars, smVars, crVars, blVars, rvVars, dgVars>>

ThNext ==
    \/ \E k \in ThMasterKeys, random \in [1..(tThreshold - 1) -> ThCoefficients] :
          SetupKeyShares(k, random) /\ ThFrame
    \/ \E c \in ThCandidates, v \in ThEncryptedVotes :
          CastEncryptedVote(c, v) /\ ThFrame
    \/ \E a \in AnyAuthorityId, c \in ThCandidates, r \in ThPartialResults :
          SubmitPartialDecryption(a, c, r) /\ ThFrame
    \/ DoTallyVotes /\ ThFrame
    \/ \E a \in AnyAuthorityId, active \in BOOLEAN :
          ToggleAuthorityStatus(a, active) /\ ThFrame

ThIdle ==
    /\ tThreshold = 0
    /\ tActive = <<>>
    /\ tShares = <<>>
    /\ tPartials = <<>>
    /\ tEncVotes = <<>>
    /\ tRet = [op |-> "idle"]

VsIdle ==
    /\ voters = <<>>
    /\ votes = {}
    /\ nullifiers = {}
    /\ calls = <<>>
    /\ now = 0

RegIdle ==
    /\ rNullifiers = <<>>
    /\ rVoteCounts = <<>>
    /\ rIsActive = FALSE
    /\ rTotalVotes = 0
    /\ rProps = <<>>
    /\ rAccepted = <<>>
    /\ rLast = <<>>

(***************************************************************************)
(* Voter registry Merkle tree (modules/merkle): buildMerkleTree,           *)
(* generateMerkleProof, verifyMerkleProof.                                 *)
(* A buffer is a voter commitment <<"leaf", <<n>>>> or a digest            *)
(* <<"sha256", <<left, right>>>>, the hash of the concatenation of two     *)
(* buffers of the digest width.  Commitments are written in canonical hex, *)
(* so Buffer.from(c, 'hex') and toString('hex') are inverse on them.       *)
(***************************************************************************)
Commitment(n) == <<"leaf", <<n>>>>

\* The voter commitments the electoral authority can register.
Commitments == {Commitment(1), Commitment(2), Commitment(3)}

MaxLeaves == 4

\* Buffer.from([]), the root of a tree without leaves; '' in hex.
EmptyBuffer == <<"empty", <<>>>>

IsDigest(b) == b[1] = "sha256"

RECURSIVE BufferWeight(_)
BufferWeight(b) ==
    IF IsDigest(b) THEN BufferWeight(b[2][1]) + BufferWeight(b[2][2])
    ELSE IF b = EmptyBuffer THEN 0
    ELSE b[2][1]

\* A digest's bytes fall before or after the commitments' without regard to
\* what was hashed: digests of odd weight sort before every commitment, the
\* others after.
BufferClass(b) ==
    IF b = EmptyBuffer THEN 0
    ELSE IF ~IsDigest(b) THEN 2
    ELSE IF BufferWeight(b) % 2 = 1 THEN 1 ELSE 3

\* Buffer.compare: a total order on buffers; -1, 0 or 1.
RECURSIVE BufferCompare(_, _)
BufferCompare(a, b) ==
    IF a = b THEN 0
    ELSE IF BufferClass(a) # BufferClass(b)
        THEN (IF BufferClass(a) < BufferClass(b) THEN -1 ELSE 1)
    ELSE IF ~IsDigest(a)
        THEN (IF a[2][1] < b[2][1] THEN -1 ELSE 1)
    ELSE IF BufferCompare(a[2][1], b[2][1]) # 0
        THEN BufferCompare(a[2][1], b[2][1])
    ELSE BufferCompare(a[2][2], b[2][2])

\* [left, right].sort(Buffer.compare)
SortBuffers(buffers) ==
    IF BufferCompare(buffers[1], buffers[2]) = 1
        THEN <<buffers[2], buffers[1]>>
        ELSE buffers

\* The layer as { duplicateOdd: true } would build it: the last node of an
\* odd layer is hashed with itself.
CreateLayer_DuplicateOdd(nodes) ==
    [i \in 1..((Len(nodes) + 1) \div 2) |->
        IF 2 * i <= Len(nodes)
            THEN Sha256(SortBuffers(<<nodes[2 * i - 1], nodes[2 * i]>>))
            ELSE Sha256(<<nodes[2 * i - 1], nodes[2 * i - 1]>>)]

\* merkletreejs, one layer from the one below with { sortPairs: true }: each
\* pair is sorted and hashed, the last node of an odd layer moves up as is.
CreateLayer(nodes) ==
    [i \in 1..((Len(nodes) + 1) \div 2) |->
        IF 2 * i <= Len(nodes)
            THEN Sha256(SortBuffers(<<nodes[2 * i - 1], nodes[2 * i]>>))
            ELSE nodes[2 * i - 1]]

RECURSIVE CreateHashes(_)
CreateHashes(nodes) ==
    IF Len(nodes) <= 1 THEN <<nodes>>
    ELSE <<nodes>> \o CreateHashes(CreateLayer(nodes))

\* buildMerkleTree: the tree is the list of its layers, leaves first.
BuildMerkleTree(voterCommitments) == CreateHashes(voterCommitments)

\* tree.getRoot()
GetRoot(tree) ==
    IF Len(tree[Len(tree)]) = 0 THEN EmptyBuffer ELSE tree[Len(tree)][1]

GetMerkleRoot(tree) == GetRoot(tree)

\* tree.getProof's search: the last position holding the leaf, 0 for none.
LeafPosition(tree, leaf) ==
    IF \E i \in 1..Len(tree[1]) : tree[1][i] = leaf
        THEN CHOOSE i \in 1..Len(tree[1]) :
                /\ tree[1][i] = leaf
                /\ \A j \in (i + 1)..Len(tree[1]) : tree[1][j] # leaf
        ELSE 0

\* tree.getProof's walk from the layer at `level` up; index is 1-based.
RECURSIVE ProofFrom(_, _, _)
ProofFrom(tree, level, index) ==
    IF level > Len(tree) THEN <<>>
    ELSE LET isRightNode == index % 2 = 0
             pairIndex == IF isRightNode THEN index - 1 ELSE index + 1
             step == IF pairIndex <= Len(tree[level])
                        THEN <<[position |-> IF isRightNode THEN "left" ELSE "right",
                                data |-> tree[level][pairIndex]]>>
                        ELSE <<>>
         IN  step \o ProofFrom(tree, level + 1, ((index - 1) \div 2) + 1)

GetProof(tree, leaf) ==
    IF LeafPosition(tree, leaf) = 0 THEN <<>>
    ELSE ProofFrom(tree, 1, LeafPosition(tree, leaf))

\* tree.verify with sortPairs: fold the proof over the target node.
RECURSIVE TreeVerifyLoop(_, _, _)
TreeVerifyLoop(proof, i, hash) ==
    IF i > Len(proof) THEN hash
    ELSE TreeVerifyLoop(proof, i + 1,
            IF BufferCompare(hash, proof[i].data) = -1
                THEN Sha256(<<hash, proof[i].data>>)
                ELSE Sha256(<<proof[i].data, hash>>))

TreeVerify(proof, targetNode, root) ==
    BufferCompare(TreeVerifyLoop(proof, 1, targetNode), root) = 0

RECURSIVE Pow2(_)
Pow2(i) == IF i = 0 THEN 1 ELSE 2 * Pow2(i - 1)

\* (indices >> i) & 1n, i counted from 0
Bit(indices, i) == (indices \div Pow2(i)) % 2

\* The bit pattern generateMerkleProof builds: bit i is set when proof
\* element i stands on the right.
RECURSIVE IndicesOf(_, _)
IndicesOf(proof, i) ==
    IF i > Len(proof) THEN 0
    ELSE (IF proof[i].position = "right" THEN Pow2(i - 1) ELSE 0)
         + IndicesOf(proof, i + 1)

GenerateMerkleProof(tree, voterCommitment) ==
    LET proof == GetProof(tree, voterCommitment)
        root  == GetRoot(tree)
    IN  [leaf     |-> voterCommitment,
         root     |-> root,
         proof    |-> [i \in 1..Len(proof) |-> proof[i].data],
         indices  |-> IndicesOf(proof, 1),
         verified |-> TreeVerify(proof, voterCommitment, root)]

RECURSIVE VerifyLoop(_, _, _, _)
VerifyLoop(proof, indices, i, computedHash) ==
    IF i > Len(proof) THEN computedHash
    ELSE LET proofElement == proof[i]
             isRight == Bit(indices, i - 1)
             buffers == IF isRight = 1
                            THEN <<computedHash, proofElement>>
                            ELSE <<proofElement, computedHash>>
         IN  VerifyLoop(proof, indices, i + 1, Sha256(SortBuffers(buffers)))

\* The comparison with the root stopping after the first characters.
VerifyMerkleProof_ComparesPrefix(leaf, proof, indices, root) ==
    VerifyLoop(proof, indices, 1, leaf)[1] = root[1]

VerifyMerkleProof(leaf, proof, indices, root) ==
    VerifyLoop(proof, indices, 1, leaf) = root

Range(seq) == {seq[i] : i \in 1..Len(seq)}

LeafLists == UNION {[1..n -> Commitments] : n \in 0..MaxLeaves}

\* The registry is built once, from any list of commitments.
MkInit ==
    /\ mkLeaves \in LeafLists
    /\ mkRet = [op |-> "buildMerkleTree"]

MkTree == BuildMerkleTree(mkLeaves)

TreeNodes(tree) == UNION {Range(tree[level]) : level \in 1..Len(tree)}

\* The values a caller can name: any commitment and any node of the tree.
BufferPool == Commitments \cup TreeNodes(MkTree)

\* A prover asks for the proof of any value.
MkGenerateProof(voterCommitment) ==
    /\ mkRet.op = "buildMerkleTree"
    /\ mkRet' = [op     |-> "generateMerkleProof",
                 result |-> GenerateMerkleProof(MkTree, voterCommitment)]
    /\ UNCHANGED mkLeaves

Suffixes(seq) == {SubSeq(seq, k, Len(seq)) : k \in 1..(Len(seq) + 1)}

\* The sibling lists handed to the verifier with the leaf of the proof just
\* generated: that proof, that proof with one sibling replaced, and the upper
\* part of any registered voter's proof.
SiblingLists(generated) ==
    {generated.proof}
    \cup {[generated.proof EXCEPT ![i] = v] :
            i \in 1..Len(generated.proof), v \in BufferPool}
    \cup UNION {Suffixes(GenerateMerkleProof(MkTree, m).proof) : m \in Range(mkLeaves)}

MkVerifyProof(proof, indices) ==
    /\ mkRet.op = "generateMerkleProof"
    /\ mkRet' = [op      |-> "verifyMerkleProof",
                 leaf    |-> mkRet.result.leaf,
                 proof   |-> proof,
                 indices |-> indices,
                 root    |-> mkRet.result.root,
                 ok      |-> VerifyMerkleProof(mkRet.result.leaf, proof, indices,
                                               mkRet.result.root)]
    /\ UNCHANGED mkLeaves

MkFrame == UNCHANGED <<vsVars, regVars, shVars, thVars, imVars, hdVars, invVars, rcVars, dvVars, smVars, crVars, blVars, rvVars, dgVars>>

MkNext ==
    \/ \E x \in BufferPool : MkGenerateProof(x) /\ MkFrame
    \/ /\ mkRet.op = "generateMerkleProof"
       /\ \E proof \in SiblingLists(mkRet.result), indices \in {0, mkRet.result.indices} :
             MkVerifyProof(proof, indices)
       /\ MkFrame

MkIdle ==
    /\ mkLeaves = <<>>
    /\ mkRet = [op |-> "idle"]

(***************************************************************************)
(* IncrementalMerkleTree (modules/merkle-stream): append, checkpoints,     *)
(* generateProof, verifyUpdate.  Leaves are commitments; '' is EmptyBuffer. *)
(* Leaf and node positions count from 0, as in the source.  Timestamps are  *)
(* left out of updates and checkpoints.                                     *)
(***************************************************************************)
\* append creates a checkpoint when the leaf count is a multiple of this.
CheckpointInterval == 2

MaxAppends == 5

\* The maxCheckpoints values the tree is constructed with.
MaxCheckpointsArgs == {0, 1, 2}

\* computeParentHash(left, right)
ComputeParentHash(left, right) == Sha256(<<left, right>>)

\* Math.ceil(Math.log2(n)) for n >= 1
RECURSIVE CeilLog2From(_, _)
CeilLog2From(n, h) == IF Pow2(h) >= n THEN h ELSE CeilLog2From(n, h + 1)

CeilLog2(n) == CeilLog2From(n, 0)

\* this.leaves[index] || ''
LeafAt(leaves, index) ==
    IF index >= 0 /\ index < Len(leaves) THEN leaves[index + 1] ELSE EmptyBuffer

RECURSIVE GetHashAtLevel(_, _, _)
GetHashAtLevel(leaves, level, index) ==
    IF level = 0 THEN LeafAt(leaves, index)
    ELSE LET leftHash  == GetHashAtLevel(leaves, level - 1, index * 2)
             rightHash == GetHashAtLevel(leaves, level - 1, index * 2 + 1)
         IN  IF leftHash = EmptyBuffer THEN EmptyBuffer
             ELSE IF rightHash = EmptyBuffer THEN leftHash
             ELSE ComputeParentHash(leftHash, rightHash)

\* The loop of computeIncrementalRoot; yields affectedPath.
RECURSIVE IncrementalLoop(_, _, _, _, _, _)
IncrementalLoop(leaves, treeHeight, level, currentIndex, currentHash, affectedPath) ==
    IF level >= treeHeight THEN affectedPath
    ELSE LET isRightNode  == currentIndex % 2 = 1
             siblingIndex == IF isRightNode THEN currentIndex - 1 ELSE currentIndex + 1
             sibling      == GetHashAtLevel(leaves, level, siblingIndex)
             leftHash     == IF isRightNode THEN sibling ELSE currentHash
             rightHash    == IF isRightNode THEN currentHash
                             ELSE IF sibling = EmptyBuffer THEN leftHash ELSE sibling
             parent       == ComputeParentHash(leftHash, rightHash)
         IN  IncrementalLoop(leaves, treeHeight, level + 1, currentIndex \div 2,
                             parent, Append(affectedPath, parent))

\* computeIncrementalRoot: the affected path; its last element becomes this.root.
ComputeIncrementalRoot(leaves, newLeafIndex) ==
    IncrementalLoop(leaves, CeilLog2(IF Len(leaves) = 0 THEN 1 ELSE Len(leaves)), 0,
                    newLeafIndex, LeafAt(leaves, newLeafIndex),
                    <<LeafAt(leaves, newLeafIndex)>>)

\* createCheckpoint without the shift: no snapshot is ever dropped.
CreateCheckpoint_NeverEvicts(checkpoints, root, leaves, maxCheckpoints) ==
    Append(checkpoints,
        [root      |-> root,
         leafCount |-> Len(leaves),
         height    |-> CeilLog2(IF Len(leaves) = 0 THEN 1 ELSE Len(leaves))])

\* createCheckpoint: push the snapshot, drop the oldest beyond maxCheckpoints.
CreateCheckpoint(checkpoints, root, leaves, maxCheckpoints) ==
    LET pushed == Append(checkpoints,
                    [root      |-> root,
                     leafCount |-> Len(leaves),
                     height    |-> CeilLog2(IF Len(leaves) = 0 THEN 1 ELSE Len(leaves))])
    IN  IF Len(pushed) > maxCheckpoints THEN Tail(pushed) ELSE pushed

ImInit ==
    /\ imLeaves = <<>>
    /\ imRoot = EmptyBuffer
    /\ imCheckpoints = <<>>
    /\ imMaxCheckpoints \in MaxCheckpointsArgs
    /\ imRootAfter = <<>>
    /\ imRet = [op |-> "new"]

ImAppend(leaf) ==
    LET leafIndex    == Len(imLeaves)
        leaves       == Append(imLeaves, leaf)
        affectedPath == ComputeIncrementalRoot(leaves, leafIndex)
        root         == affectedPath[Len(affectedPath)]
    IN  /\ Len(imLeaves) < MaxAppends
        /\ imLeaves' = leaves
        /\ imRoot' = root
        /\ imCheckpoints' =
              IF Len(leaves) % CheckpointInterval = 0
                  THEN CreateCheckpoint(imCheckpoints, root, leaves, imMaxCheckpoints)
                  ELSE imCheckpoints
        /\ imRootAfter' = Append(imRootAfter, root)
        /\ imRet' = [op     |-> "append",
                     update |-> [newLeaf      |-> leaf,
                                 newRoot      |-> root,
                                 affectedPath |-> affectedPath,
                                 leafCount    |-> Len(leaves)]]
        /\ UNCHANGED imMaxCheckpoints

\* The loop of generateProof; yields the siblings and the bit pattern.
RECURSIVE ProofLoop(_, _, _, _, _, _)
ProofLoop(leaves, treeHeight, level, currentIndex, proof, indices) ==
    IF level >= treeHeight THEN [proof |-> proof, indices |-> indices]
    ELSE LET isRightNode  == currentIndex % 2 = 1
             siblingIndex == IF isRightNode THEN currentIndex - 1 ELSE currentIndex + 1
             siblingHash  == GetHashAtLevel(leaves, level, siblingIndex)
         IN  ProofLoop(leaves, treeHeight, level + 1, currentIndex \div 2,
                 IF siblingHash # EmptyBuffer THEN Append(proof, siblingHash) ELSE proof,
                 IF siblingHash # EmptyBuffer /\ siblingIndex > currentIndex
                     THEN indices + Pow2(level) ELSE indices)

\* null
NoProof == [leaf |-> EmptyBuffer, proof |-> <<>>, indices |-> -1, root |-> EmptyBuffer]

GenerateProof(leaves, root, leafIndex) ==
    IF leafIndex < 0 \/ leafIndex >= Len(leaves) THEN NoProof
    ELSE LET walk == ProofLoop(leaves, CeilLog2(Len(leaves)), 0, leafIndex, <<>>, 0)
         IN  [leaf    |-> leaves[leafIndex + 1],
              proof   |-> walk.proof,
              indices |-> walk.indices,
              root    |-> root]

ImGenerateProof(leafIndex) ==
    /\ imRet' = [op        |-> "generateProof",
                 leafIndex |-> leafIndex,
                 result    |-> GenerateProof(imLeaves, imRoot, leafIndex)]
    /\ UNCHANGED <<imLeaves, imRoot, imCheckpoints, imMaxCheckpoints, imRootAfter>>

VerifyUpdate(update, previousRoot) ==
    IF Len(update.affectedPath) = 0 THEN FALSE
    ELSE update.affectedPath[Len(update.affectedPath)] = update.newRoot

\* The values a forged update is made of.
ForgedHashes == {Commitment(1), Commitment(2)}

\* The updates handed to verifyUpdate: the one append returned, and that one
\* with its path emptied, with the first or the last element of its path
\* replaced, or with another claimed root.
UpdatesFrom(update) ==
    {update, [update EXCEPT !.affectedPath = <<>>]}
    \cup {[update EXCEPT !.affectedPath[1] = c] : c \in ForgedHashes}
    \cup {[update EXCEPT !.affectedPath[Len(update.affectedPath)] = c] : c \in ForgedHashes}
    \cup {[update EXCEPT !.newRoot = c] : c \in ForgedHashes}

PreviousRoots == {EmptyBuffer, Commitment(1)}

ImVerifyUpdate(update, previousRoot) ==
    /\ imRet' = [op           |-> "verifyUpdate",
                 update       |-> update,
                 previousRoot |-> previousRoot,
                 ok           |-> VerifyUpdate(update, previousRoot)]
    /\ UNCHANGED <<imLeaves, imRoot, imCheckpoints, imMaxCheckpoints, imRootAfter>>

ImFrame == UNCHANGED <<vsVars, regVars, shVars, thVars, mkVars, hdVars, invVars, rcVars, dvVars, smVars, crVars, blVars, rvVars, dgVars>>

ImNext ==
    \/ \E leaf \in Commitments : ImAppend(leaf) /\ ImFrame
    \/ \E leafIndex \in -1..Len(imLeaves) : ImGenerateProof(leafIndex) /\ ImFrame
    \/ /\ imRet.op = "append"
       /\ \E update \in UpdatesFrom(imRet.update), previousRoot \in PreviousRoots :
             ImVerifyUpdate(update, previousRoot)
       /\ ImFrame

ImIdle ==
    /\ imLeaves = <<>>
    /\ imRoot = EmptyBuffer
    /\ imCheckpoints = <<>>
    /\ imMaxCheckpoints = 0
    /\ imRootAfter = <<>>
    /\ imRet = [op |-> "idle"]

(***************************************************************************)
(* What fewer than threshold shares of ShamirSecretSharing.split tell: for *)
(* a set of share positions and values seen there, the draws of the random *)
(* coefficients under which split hands out those values, per secret.      *)
(***************************************************************************)
\* The thresholds the draws are counted for; each further threshold
\* multiplies the coefficient draws by Prime.
HidingThresholds == {1, 2, 3}

\* The share split computes for position x: the polynomial with constant
\* term secret and the drawn coefficients, evaluated at x.
ShareValue(secret, random, x) == EvaluatePolynomial(<<secret>> \o random, x)

\* The draws under which split(secret, threshold, ..) yields the given values
\* at the given positions.
ConsistentDraws(secret, threshold, indices, values) ==
    {random \in RandomCoefficients(threshold) :
        \A i \in indices : ShareValue(secret, random, i) = values[i]}

NotSeen == [indices |-> {}, values |-> <<>>, seen |-> FALSE]

HdInit ==
    /\ hdThreshold \in HidingThresholds
    /\ hdTotalShares \in 1..MaxShares
    /\ hdThreshold <= hdTotalShares
    /\ hdSeen = NotSeen
    /\ hdDraws = <<>>

\* Fewer than threshold shares are seen, holding any field values.
HdObserve(indices, values) ==
    /\ ~hdSeen.seen
    /\ Cardinality(indices) < hdThreshold
    /\ hdSeen' = [indices |-> indices, values |-> values, seen |-> TRUE]
    /\ hdDraws' = [secret \in Field |->
                     Cardinality(ConsistentDraws(secret, hdThreshold, indices, values))]
    /\ UNCHANGED <<hdThreshold, hdTotalShares>>

HdFrame == UNCHANGED <<vsVars, regVars, shVars, thVars, mkVars, imVars, invVars, rcVars, dvVars, smVars, crVars, blVars, rvVars, dgVars>>

HdNext ==
    \E indices \in SUBSET (1..hdTotalShares) :
        \E values \in [indices -> Field] : HdObserve(indices, values) /\ HdFrame

HdIdle ==
    /\ hdThreshold = 0
    /\ hdTotalShares = 0
    /\ hdSeen = NotSeen
    /\ hdDraws = <<>>

(***************************************************************************)
(* ShamirSecretSharing.modInverse on its own: the denominators combine     *)
(* hands to it are field elements; any non-negative operand is applied.    *)
(***************************************************************************)
MaxOperand == 60

\* modInverse has no throw statement: it returns for every operand.
ModInverseThrows(a, p) == FALSE

InvInit ==
    /\ invArg \in 0..MaxOperand
    /\ invRet = [op |-> "new"]

InvModInverse ==
    /\ invRet.op = "new"
    /\ invRet' = [op    |-> "modInverse",
                  threw |-> ModInverseThrows(invArg, Prime),
                  value |-> ModInverse(invArg, Prime)]
    /\ UNCHANGED invArg

InvFrame == UNCHANGED <<vsVars, regVars, shVars, thVars, mkVars, imVars, hdVars, rcVars, dvVars, smVars, crVars, blVars, rvVars, dgVars>>

InvNext == InvModInverse /\ InvFrame

InvIdle ==
    /\ invArg = 0
    /\ invRet = [op |-> "idle"]

(***************************************************************************)
(* VoteRecoverySystem: one voter's recovery configuration, the shares      *)
(* stored for the guardians, and the recovery requests with their          *)
(* approvals.  Guardian objects belong to the caller, who may change their *)
(* active flag at any time; setupRecovery writes their shareIndex.         *)
(***************************************************************************)
GuardianIds    == {"g1", "g2", "g3"}
AnyGuardianId  == GuardianIds \cup {"gx"}
GuardianLists  == {<<"g1">>, <<"g1", "g2">>, <<"g3", "g1">>}
ToggledGuardians == {"g2"}
RequestIds     == {"r1"}
AnyRequestId   == RequestIds \cup {"rx"}
VotingKeys     == {3}
TimeLockHours  == {0, 1}
RcThresholds   == 1..2
MaxRcClock     == 1
MaxRcSetups    == 2

\* timeLockHours * 3600 * 1000, with one clock unit per hour.
HourMs == 1

\* sha256 outputs read as numbers (BigInt('0x' + hex)), reduced into the field.
RcDigests == {1, 4}

\* The values randomBigInt returns for the threshold - 1 coefficients here.
RcCoefficients(threshold) ==
    [1..(IF threshold > 1 THEN threshold - 1 ELSE 0) -> {3}]

\* The voterId of the one voter whose recovery is followed.
RecoveringVoter == "voter"

NoConfig  == [set |-> FALSE]

\* rcRet after a call other than executeRecovery.
OtherCall == [op |-> "other"]
NoRequest == [status |-> "none"]

PublicKey(guardianId) == <<"pk", guardianId>>

\* Buffer.from(votingKey, 'hex') folded into a bigint, and
\* toString(16).padStart(64, '0') on the way back: a 32-byte key is its number.
KeyToBigInt(votingKey) == votingKey
BigIntToKey(value)     == value

\* encryptShareForGuardian: sha256(shareHex + publicKey) as hex.  sha is the
\* hash function on the inputs of the call; its output does not determine
\* the share.
EncryptShareForGuardian(share, publicKey, sha) == sha[<<share, publicKey>>]

\* decryptShareFromGuardian: encryptedShare.substring(0, 64), which is the
\* whole 64-character digest.
DecryptShareFromGuardian(encryptedShare, publicKey) == encryptedShare

\* config.guardians.find(g => g.id === guardianId): position in the list, 0
\* when there is none.
FindGuardian(guardians, guardianId) ==
    IF \E i \in 1..Len(guardians) : guardians[i] = guardianId
    THEN CHOOSE i \in 1..Len(guardians) :
             /\ guardians[i] = guardianId
             /\ \A j \in 1..(i - 1) : guardians[j] # guardianId
    ELSE 0

\* The inputs encryptShareForGuardian hashes during one setupRecovery.
ShaInputs(shares, guardians) ==
    {<<shares[i], PublicKey(guardians[i])>> : i \in 1..Len(guardians)}

\* The hash functions on those inputs: different inputs, different digests.
ShaFunctions(inputs) ==
    {sha \in [inputs -> RcDigests] :
        \A x, y \in inputs : x # y => sha[x] # sha[y]}

RcInit ==
    /\ rcConfig = NoConfig
    /\ rcShares = <<>>
    /\ rcRequests = [r \in RequestIds |-> NoRequest]
    /\ rcGuardians = [g \in GuardianIds |-> [active |-> TRUE, shareIndex |-> 0]]
    /\ rcKey = 0
    /\ rcNow = 0
    /\ rcSetups = 0
    /\ rcRet = [op |-> "new"]

\* The body of setupRecovery after its two checks.
DoSetupRecovery(votingKey, guardians, threshold, timeLockHours, random, sha) ==
    LET shares == Split(KeyToBigInt(votingKey), threshold, Len(guardians), random)
    IN /\ rcShares' = [i \in 1..Len(guardians) |->
                          [guardianId     |-> guardians[i],
                           encryptedShare |-> EncryptShareForGuardian(
                                                  shares[i], PublicKey(guardians[i]), sha),
                           shareIndex     |-> i]]
       /\ rcGuardians' = [g \in GuardianIds |->
                             IF FindGuardian(guardians, g) # 0
                             THEN [rcGuardians[g] EXCEPT
                                      !.shareIndex = FindGuardian(guardians, g)]
                             ELSE rcGuardians[g]]
       /\ rcConfig' = [set |-> TRUE, threshold |-> threshold,
                       totalGuardians |-> Len(guardians), guardians |-> guardians,
                       timeLockHours |-> timeLockHours]
       /\ rcKey' = votingKey

SetupRecoveryThrows(guardians, threshold) ==
    threshold > Len(guardians) \/ Len(guardians) < 2

SetupRecovery(votingKey, guardians, threshold, timeLockHours, random, sha) ==
    /\ rcSetups < MaxRcSetups
    /\ IF SetupRecoveryThrows(guardians, threshold)
       THEN /\ rcRet' = OtherCall
            /\ UNCHANGED <<rcConfig, rcShares, rcGuardians, rcKey, rcSetups>>
       ELSE /\ DoSetupRecovery(votingKey, guardians, threshold, timeLockHours, random, sha)
            /\ rcSetups' = rcSetups + 1
            /\ rcRet' = OtherCall
    /\ UNCHANGED <<rcRequests, rcNow>>

RcSetupRecovery ==
    \E votingKey \in VotingKeys, guardians \in GuardianLists,
       threshold \in RcThresholds, timeLockHours \in TimeLockHours :
        \E random \in RcCoefficients(threshold) :
            \E sha \in ShaFunctions(ShaInputs(Split(KeyToBigInt(votingKey), threshold,
                                                   Len(guardians), random), guardians)) :
                SetupRecovery(votingKey, guardians, threshold, timeLockHours, random, sha)

\* initiateRecovery: generateCredential() gives an unused request id.
InitiateRecovery ==
    IF ~rcConfig.set
    THEN /\ rcRet' = OtherCall
         /\ UNCHANGED rcRequests
    ELSE \E requestId \in RequestIds :
            /\ rcRequests[requestId] = NoRequest
            /\ rcRequests' = [rcRequests EXCEPT ![requestId] =
                   [status     |-> "pending",
                    unlockTime |-> rcNow + rcConfig.timeLockHours * HourMs,
                    approvals  |-> <<>>,
                    qualified  |-> {},
                    cancelled  |-> FALSE]]
            /\ rcRet' = OtherCall

RcInitiateRecovery ==
    /\ InitiateRecovery
    /\ UNCHANGED <<rcConfig, rcShares, rcGuardians, rcKey, rcNow, rcSetups>>

\* shares.find(s => s.guardianId === guardianId): position in recoveryShares,
\* 0 when there is none.
FindShare(guardianId) ==
    IF \E i \in 1..Len(rcShares) : rcShares[i].guardianId = guardianId
    THEN CHOOSE i \in 1..Len(rcShares) :
             /\ rcShares[i].guardianId = guardianId
             /\ \A j \in 1..(i - 1) : rcShares[j].guardianId # guardianId
    ELSE 0

\* approveRecovery without the check of guardian.active.
ApproveRecoveryRefuses_IgnoresActive(requestId, guardianId) ==
    \/ requestId \notin RequestIds
    \/ rcRequests[requestId] = NoRequest
    \/ ~rcConfig.set
    \/ FindGuardian(rcConfig.guardians, guardianId) = 0
    \/ FindShare(guardianId) = 0

\* The conditions under which approveRecovery returns false.
ApproveRecoveryRefuses(requestId, guardianId) ==
    \/ requestId \notin RequestIds
    \/ rcRequests[requestId] = NoRequest
    \/ ~rcConfig.set
    \/ FindGuardian(rcConfig.guardians, guardianId) = 0
    \/ ~rcGuardians[guardianId].active
    \/ FindShare(guardianId) = 0

\* approveRecovery.  The field qualified remembers which guardians of the
\* voter asked to approve while they were active; the code does not read it.
ApproveRecovery(requestId, guardianId) ==
    IF ApproveRecoveryRefuses(requestId, guardianId)
    THEN /\ rcRet' = OtherCall
         /\ UNCHANGED rcRequests
    ELSE LET request   == rcRequests[requestId]
             share     == rcShares[FindShare(guardianId)].encryptedShare
             approvals == MapPut(request.approvals, guardianId, share)
             isGuardianNow == /\ \E i \in 1..Len(rcConfig.guardians) :
                                     rcConfig.guardians[i] = guardianId
                              /\ rcGuardians[guardianId].active
         IN /\ rcRequests' = [rcRequests EXCEPT ![requestId] =
                   [request EXCEPT
                       !.approvals = approvals,
                       !.qualified = IF isGuardianNow THEN @ \cup {guardianId} ELSE @,
                       !.status = IF Len(approvals) >= rcConfig.threshold
                                  THEN "approved" ELSE @]]
            /\ rcRet' = OtherCall

RcApproveRecovery ==
    /\ \E requestId \in AnyRequestId, guardianId \in AnyGuardianId :
           ApproveRecovery(requestId, guardianId)
    /\ UNCHANGED <<rcConfig, rcShares, rcGuardians, rcKey, rcNow, rcSetups>>

\* The loop of executeRecovery over request.approvals from entry i on: an
\* approval whose guardian is in the current configuration adds its share
\* under that guardian's shareIndex.
RECURSIVE RecoveryShareMap(_, _, _)
RecoveryShareMap(approvals, i, shareMap) ==
    IF i > Len(approvals) THEN shareMap
    ELSE LET guardianId == approvals[i][1]
         IN IF FindGuardian(rcConfig.guardians, guardianId) # 0
            THEN RecoveryShareMap(approvals, i + 1,
                     MapPut(shareMap, rcGuardians[guardianId].shareIndex,
                            DecryptShareFromGuardian(approvals[i][2],
                                                     PublicKey(guardianId))))
            ELSE RecoveryShareMap(approvals, i + 1, shareMap)

ExecuteRecovery(requestId) ==
    IF requestId \notin RequestIds \/ rcRequests[requestId] = NoRequest \/ ~rcConfig.set
    THEN /\ rcRet' = [op |-> "executeRecovery", outcome |-> "null"]
         /\ UNCHANGED rcRequests
    ELSE LET request  == rcRequests[requestId]
             shareMap == RecoveryShareMap(request.approvals, 1, <<>>)
         IN IF rcNow < request.unlockTime
            THEN /\ rcRet' = [op |-> "executeRecovery", outcome |-> "locked"]
                 /\ UNCHANGED rcRequests
            ELSE IF Len(request.approvals) < rcConfig.threshold
            THEN /\ rcRet' = [op |-> "executeRecovery", outcome |-> "approvals"]
                 /\ UNCHANGED rcRequests
            ELSE IF Len(shareMap) = 0
            THEN /\ rcRet' = [op |-> "executeRecovery", outcome |-> "combine throws",
                              requestId |-> requestId, shareMap |-> shareMap]
                 /\ UNCHANGED rcRequests
            ELSE /\ rcRet' = [op |-> "executeRecovery", outcome |-> "key",
                              requestId |-> requestId, shareMap |-> shareMap,
                              key |-> BigIntToKey(Combine(shareMap))]
                 /\ rcRequests' = [rcRequests EXCEPT ![requestId].status = "executed"]

RcExecuteRecovery ==
    /\ \E requestId \in AnyRequestId : ExecuteRecovery(requestId)
    /\ UNCHANGED <<rcConfig, rcShares, rcGuardians, rcKey, rcNow, rcSetups>>

\* cancelRecovery(requestId, voterId).  The field cancelled remembers that a
\* cancelRecovery succeeded; the code does not read it.
CancelRecovery(requestId, voterId) ==
    IF requestId \notin RequestIds \/ rcRequests[requestId] = NoRequest
       \/ voterId # RecoveringVoter
    THEN /\ rcRet' = OtherCall
         /\ UNCHANGED rcRequests
    ELSE /\ rcRequests' = [rcRequests EXCEPT ![requestId].status = "rejected",
                                             ![requestId].cancelled = TRUE]
         /\ rcRet' = OtherCall

RcCancelRecovery ==
    /\ \E requestId \in AnyRequestId, voterId \in {RecoveringVoter, "vx"} :
           CancelRecovery(requestId, voterId)
    /\ UNCHANGED <<rcConfig, rcShares, rcGuardians, rcKey, rcNow, rcSetups>>

\* updateGuardians: a new setupRecovery with the old threshold and time lock.
UpdateGuardians(votingKey, newGuardians, random, sha) ==
    IF ~rcConfig.set
    THEN /\ rcRet' = OtherCall
         /\ UNCHANGED <<rcConfig, rcShares, rcGuardians, rcKey, rcSetups>>
    ELSE /\ rcSetups < MaxRcSetups
         /\ IF SetupRecoveryThrows(newGuardians, rcConfig.threshold)
            THEN /\ rcRet' = OtherCall
                 /\ UNCHANGED <<rcConfig, rcShares, rcGuardians, rcKey, rcSetups>>
            ELSE /\ DoSetupRecovery(votingKey, newGuardians, rcConfig.threshold,
                                    rcConfig.timeLockHours, random, sha)
                 /\ rcSetups' = rcSetups + 1
                 /\ rcRet' = OtherCall

RcUpdateGuardians ==
    /\ \E votingKey \in VotingKeys, newGuardians \in GuardianLists :
        \E random \in RcCoefficients(IF rcConfig.set THEN rcConfig.threshold ELSE 1) :
            \E sha \in ShaFunctions(ShaInputs(Split(KeyToBigInt(votingKey),
                                        IF rcConfig.set THEN rcConfig.threshold ELSE 1,
                                        Len(newGuardians), random), newGuardians)) :
                UpdateGuardians(votingKey, newGuardians, random, sha)
    /\ UNCHANGED <<rcRequests, rcNow>>

\* The caller sets a guardian object's active flag.
RcSetActive ==
    /\ \E guardianId \in ToggledGuardians, active \in BOOLEAN :
           /\ rcGuardians[guardianId].active # active
           /\ rcGuardians' = [rcGuardians EXCEPT ![guardianId].active = active]
    /\ UNCHANGED <<rcConfig, rcShares, rcRequests, rcKey, rcNow, rcSetups, rcRet>>

\* Date.now() advances.
RcTick ==
    /\ rcNow < MaxRcClock
    /\ rcNow' = rcNow + 1
    /\ UNCHANGED <<rcConfig, rcShares, rcRequests, rcGuardians, rcKey, rcSetups, rcRet>>

RcFrame == UNCHANGED <<vsVars, regVars, shVars, thVars, mkVars, imVars, hdVars, invVars, dvVars, smVars, crVars, blVars, rvVars, dgVars>>

RcNext ==
    \/ RcSetupRecovery /\ RcFrame
    \/ RcInitiateRecovery /\ RcFrame
    \/ RcApproveRecovery /\ RcFrame
    \/ RcExecuteRecovery /\ RcFrame
    \/ RcUpdateGuardians /\ RcFrame
    \/ RcSetActive /\ RcFrame
    \/ RcTick /\ RcFrame

\* The calls of a recovery that its voter cancels: no guardian is replaced
\* or deactivated meanwhile.
RcCancelNext ==
    \/ RcSetupRecovery /\ RcFrame
    \/ RcInitiateRecovery /\ RcFrame
    \/ RcApproveRecovery /\ RcFrame
    \/ RcExecuteRecovery /\ RcFrame
    \/ RcCancelRecovery /\ RcFrame
    \/ RcTick /\ RcFrame

RcIdle ==
    /\ rcConfig = NoConfig
    /\ rcShares = <<>>
    /\ rcRequests = [r \in RequestIds |-> NoRequest]
    /\ rcGuardians = [g \in GuardianIds |-> [active |-> FALSE, shareIndex |-> 0]]
    /\ rcKey = 0
    /\ rcNow = 0
    /\ rcSetups = 0
    /\ rcRet = [op |-> "idle"]

(***************************************************************************)
(* MultiDeviceRecovery: the shares setupDevices stored for one voter's     *)
(* devices, and recoverFromDevices on shares the caller collected from     *)
(* some of them.                                                           *)
(***************************************************************************)
DeviceIds     == {"d1", "d2", "d3"}
DeviceLists   == {<<"d1", "d2">>, <<"d1", "d2", "d3">>}
DeviceKeys    == {3, 5}

\* The values randomBigInt returns for the threshold - 1 coefficients here.
DvCoefficients(threshold) ==
    [1..(IF threshold > 1 THEN threshold - 1 ELSE 0) -> ThCoefficients]

\* shares[index].toString(16).padStart(64, '0') and BigInt('0x' + share): a
\* share below 2^256 is its number.
ShareToHex(share) == share
HexToShare(hex)   == hex

DvInit ==
    /\ dvKey = 0
    /\ dvThreshold = 0
    /\ dvShares = <<>>
    /\ dvRet = [op |-> "new"]

\* setupDevices: split throws when threshold > deviceIds.length.
SetupDevices(votingKey, deviceIds, threshold, random) ==
    IF threshold > Len(deviceIds)
    THEN /\ dvRet' = [op |-> "setupDevices", outcome |-> "throws"]
         /\ UNCHANGED <<dvKey, dvThreshold, dvShares>>
    ELSE LET shares == Split(KeyToBigInt(votingKey), threshold, Len(deviceIds), random)
         IN /\ dvShares' = [i \in 1..Len(deviceIds) |->
                               <<deviceIds[i], ShareToHex(shares[i])>>]
            /\ dvKey' = votingKey
            /\ dvThreshold' = threshold
            /\ dvRet' = [op |-> "setupDevices", outcome |-> "shares"]

DvSetupDevices ==
    \E votingKey \in DeviceKeys, deviceIds \in DeviceLists, threshold \in 1..MaxThreshold :
        \E random \in DvCoefficients(threshold) :
            SetupDevices(votingKey, deviceIds, threshold, random)

\* The forEach of recoverFromDevices over the supplied Map from entry i on:
\* the entries are numbered 1, 2, ... in the order the Map holds them.
RECURSIVE DeviceShareMap(_, _, _)
DeviceShareMap(deviceShares, i, shareMap) ==
    IF i > Len(deviceShares) THEN shareMap
    ELSE DeviceShareMap(deviceShares, i + 1,
             MapPut(shareMap, i, HexToShare(deviceShares[i][2])))

RecoverFromDevices(deviceShares, threshold) ==
    /\ dvRet' =
          IF Len(deviceShares) < threshold
          THEN [op |-> "recoverFromDevices", outcome |-> "throws",
                deviceShares |-> deviceShares]
          ELSE IF Len(deviceShares) = 0
          THEN [op |-> "recoverFromDevices", outcome |-> "combine throws",
                deviceShares |-> deviceShares]
          ELSE [op |-> "recoverFromDevices", outcome |-> "key",
                deviceShares |-> deviceShares,
                key |-> BigIntToKey(Combine(DeviceShareMap(deviceShares, 1, <<>>)))]
    /\ UNCHANGED <<dvKey, dvThreshold, dvShares>>

\* The Maps a caller can build from the stored shares: the shares of some of
\* the registered devices, each once, in any order.
CollectedShares ==
    {collected \in UNION {[1..n -> Range(dvShares)] : n \in 0..Len(dvShares)} :
        \A i, j \in 1..Len(collected) : i # j => collected[i][1] # collected[j][1]}

DvRecoverFromDevices ==
    \E deviceShares \in CollectedShares, threshold \in 0..MaxThreshold :
        RecoverFromDevices(deviceShares, threshold)

DvFrame == UNCHANGED <<vsVars, regVars, shVars, thVars, mkVars, imVars, hdVars, invVars, rcVars, smVars, crVars, blVars, rvVars, dgVars>>

DvNext ==
    \/ DvSetupDevices /\ DvFrame
    \/ DvRecoverFromDevices /\ DvFrame

DvIdle ==
    /\ dvKey = 0
    /\ dvThreshold = 0
    /\ dvShares = <<>>
    /\ dvRet = [op |-> "idle"]

(***************************************************************************)
(* SparseMerkleTree: a tree of fixed depth that stores its non-empty       *)
(* leaves by index; every other leaf is the zero value.                    *)
(***************************************************************************)
MaxSmDepth   == 2
MaxSmInserts == 2

\* The width of the operands of JavaScript's bitwise operators (32 in the
\* program): currentIndex ^ 1 goes through ToInt32.  The default depth of
\* the tree equals that width.
WordBits == 2

SmDepths == 0..MaxSmDepth
SmValues == {Commitment(1), Commitment(2)}

\* The indices a caller passes: those of the tree, one below and one above.
SmIndices(depth) == (0 - 1)..Pow2(depth)

\* getEmptyLeaf: '0'.repeat(64)
GetEmptyLeaf == <<"zero", <<>>>>

\* this.leaves.get(index) || this.getEmptyLeaf()
LeafGet(leaves, index) ==
    IF index \in DOMAIN leaves THEN leaves[index] ELSE GetEmptyLeaf

\* getNodeHash(level, index)
RECURSIVE GetNodeHash(_, _, _)
GetNodeHash(leaves, level, index) ==
    IF level = 0 THEN LeafGet(leaves, index)
    ELSE LET leftChild  == GetNodeHash(leaves, level - 1, index * 2)
             rightChild == GetNodeHash(leaves, level - 1, index * 2 + 1)
         IN ComputeParentHash(leftChild, rightChild)

\* computeRoot
ComputeRoot(leaves, depth) == GetNodeHash(leaves, depth, 0)

\* ToInt32: the operand modulo 2^WordBits, read as a signed number.
ToInt32(x) ==
    LET u == x % Pow2(WordBits)
    IN IF u >= Pow2(WordBits - 1) THEN u - Pow2(WordBits) ELSE u

\* currentIndex ^ 1
Xor1(x) ==
    LET u == x % Pow2(WordBits)
    IN ToInt32(IF u % 2 = 0 THEN u + 1 ELSE u - 1)

\* Math.floor(currentIndex / 2)
FloorHalf(x) == x \div 2

\* insert that checks the upper limit of the index only.
InsertOutOfBounds_NoLowerBound(index, depth) == index >= Pow2(depth)

\* The condition under which insert throws 'Index out of bounds'.
InsertOutOfBounds(index, depth) == index < 0 \/ index >= Pow2(depth)

\* Map.set(index, value)
LeavesSet(leaves, index, value) ==
    [i \in DOMAIN leaves \cup {index} |-> IF i = index THEN value ELSE leaves[i]]

\* The loop of generateProof from the given level on: the siblings pushed.
RECURSIVE SparseProofLoop(_, _, _, _)
SparseProofLoop(leaves, depth, level, currentIndex) ==
    IF level >= depth THEN <<>>
    ELSE <<GetNodeHash(leaves, level, Xor1(currentIndex))>>
         \o SparseProofLoop(leaves, depth, level + 1, FloorHalf(currentIndex))

\* The bits generateProof sets in indices: bit level when the sibling's index
\* is above the current one.
RECURSIVE SparseIndicesLoop(_, _, _)
SparseIndicesLoop(depth, level, currentIndex) ==
    IF level >= depth THEN 0
    ELSE (IF Xor1(currentIndex) > currentIndex THEN Pow2(level) ELSE 0)
         + SparseIndicesLoop(depth, level + 1, FloorHalf(currentIndex))

\* The loop of the private verifyProof from proof element i on.
RECURSIVE SparseVerifyLoop(_, _, _, _)
SparseVerifyLoop(proof, i, computedHash, currentIndex) ==
    IF i > Len(proof) THEN computedHash
    ELSE SparseVerifyLoop(proof, i + 1,
             IF Xor1(currentIndex) > currentIndex
             THEN Sha256(<<computedHash, proof[i]>>)
             ELSE Sha256(<<proof[i], computedHash>>),
             FloorHalf(currentIndex))

\* The private verifyProof(leaf, proof, index)
SparseVerifyProof(leaf, proof, index, root) ==
    SparseVerifyLoop(proof, 1, leaf, index) = root

\* generateProof(index): it has no check of the index.
SparseGenerateProof(leaves, depth, root, index) ==
    LET proof == SparseProofLoop(leaves, depth, 0, index)
        leaf  == LeafGet(leaves, index)
    IN [op |-> "generateProof", outcome |-> "proof", index |-> index,
        leaf |-> leaf, root |-> root, proof |-> proof,
        indices |-> SparseIndicesLoop(depth, 0, index),
        verified |-> SparseVerifyProof(leaf, proof, index, root)]

\* get(index): this.leaves.get(index) || null
SparseGet(leaves, index) ==
    IF index \in DOMAIN leaves THEN leaves[index] ELSE "null"

\* The orders in which the Map may hold the stored indices.
EntryOrders(leaves) ==
    {order \in [1..Cardinality(DOMAIN leaves) -> DOMAIN leaves] :
        \A i, j \in DOMAIN order : i # j => order[i] # order[j]}

\* export(): the entries of the Map, the root and the depth.
SparseExport(leaves, root, depth, order) ==
    [leaves |-> [i \in DOMAIN order |-> <<order[i], leaves[order[i]]>>],
     root   |-> root,
     depth  |-> depth]

\* The forEach of import from entry i on: insert on the new tree, which ends
\* the import when it throws.
RECURSIVE ImportLoop(_, _, _)
ImportLoop(entries, i, tree) ==
    IF i > Len(entries) THEN tree
    ELSE IF InsertOutOfBounds(entries[i][1], tree.depth)
    THEN [outcome |-> "throws"]
    ELSE LET leaves == LeavesSet(tree.leaves, entries[i][1], entries[i][2])
         IN ImportLoop(entries, i + 1,
                [tree EXCEPT !.leaves = leaves,
                             !.root = ComputeRoot(leaves, tree.depth)])

\* import that leaves out the last entry of data.leaves.
SparseImport_DropsLastEntry(data) ==
    ImportLoop(SubSeq(data.leaves, 1, Len(data.leaves) - 1), 1,
               [outcome |-> "tree", leaves |-> <<>>, depth |-> data.depth,
                root |-> ComputeRoot(<<>>, data.depth)])

\* static import(data): a new tree of data.depth, then the inserts.  It
\* does not read data.root.
SparseImport(data) ==
    ImportLoop(data.leaves, 1,
               [outcome |-> "tree", leaves |-> <<>>, depth |-> data.depth,
                root |-> ComputeRoot(<<>>, data.depth)])

\* What may reach import: an export of the tree, whole or cut short after
\* some of its entries.
StoredExports ==
    {[SparseExport(smLeaves, smRoot, smDepth, order) EXCEPT
         !.leaves = SubSeq(@, 1, kept)] :
        order \in EntryOrders(smLeaves), kept \in 0..Cardinality(DOMAIN smLeaves)}

\* constructor(depth)
SmInit ==
    /\ smDepth \in SmDepths
    /\ smLeaves = <<>>
    /\ smRoot = ComputeRoot(<<>>, smDepth)
    /\ smInserts = 0
    /\ smRet = [op |-> "new"]

SmInsert ==
    \E index \in SmIndices(smDepth), value \in SmValues :
        IF InsertOutOfBounds(index, smDepth)
        THEN /\ smRet' = [op |-> "insert", outcome |-> "throws", index |-> index]
             /\ UNCHANGED <<smDepth, smLeaves, smRoot, smInserts>>
        ELSE /\ smInserts < MaxSmInserts
             /\ smLeaves' = LeavesSet(smLeaves, index, value)
             /\ smRoot' = ComputeRoot(LeavesSet(smLeaves, index, value), smDepth)
             /\ smInserts' = smInserts + 1
             /\ smRet' = [op |-> "insert", outcome |-> "stored", index |-> index]
             /\ UNCHANGED smDepth

SmGenerateProof ==
    /\ \E index \in SmIndices(smDepth) :
           smRet' = SparseGenerateProof(smLeaves, smDepth, smRoot, index)
    /\ UNCHANGED <<smDepth, smLeaves, smRoot, smInserts>>

\* SparseMerkleTree.import(data) on stored data; the tree itself is untouched.
SmImport ==
    /\ \E data \in StoredExports :
           smRet' = [op |-> "import", data |-> data, tree |-> SparseImport(data)]
    /\ UNCHANGED <<smDepth, smLeaves, smRoot, smInserts>>

SmFrame == UNCHANGED <<vsVars, regVars, shVars, thVars, mkVars, imVars, hdVars, invVars, rcVars, dvVars, crVars, blVars, rvVars, dgVars>>

SmNext ==
    \/ SmInsert /\ SmFrame
    \/ SmGenerateProof /\ SmFrame
    \/ SmImport /\ SmFrame

SmIdle ==
    /\ smDepth = 0
    /\ smLeaves = <<>>
    /\ smRoot = GetEmptyLeaf
    /\ smInserts = 0
    /\ smRet = [op |-> "idle"]

(***************************************************************************)
(* crypto: createCommitment, generateNullifier and generateVoterCommitment *)
(* applied to two strings.  A string is a sequence of characters; a byte   *)
(* is a pair of lower-case hex digits.                                     *)
(***************************************************************************)
MaxInputLen == 3

\* generateCredential: randomBytes(32).toString('hex'), 64 characters in the
\* program; the length of a well-formed identifier.
CredentialLen == 2

CryptoChars == {"a", "b", "A", "z"}
HexDigits   == {"a", "b", "A"}

InputStrings == UNION {[1..n -> CryptoChars] : n \in 0..MaxInputLen}

\* The value of a hex digit, whatever its case.
HexDigit(c) == IF c = "A" THEN "a" ELSE c

\* Buffer.from(s, 'hex') from character i on: one byte per pair of hex
\* digits, ending at the first pair that is not one or at a single last
\* character.
RECURSIVE HexDecodeFrom(_, _)
HexDecodeFrom(s, i) ==
    IF i + 1 > Len(s) THEN <<>>
    ELSE IF s[i] \in HexDigits /\ s[i + 1] \in HexDigits
    THEN <<<<HexDigit(s[i]), HexDigit(s[i + 1])>>>> \o HexDecodeFrom(s, i + 2)
    ELSE <<>>

HexDecode(s) == HexDecodeFrom(s, 1)

\* Buffer.from(s, 'utf8'): the code of each character.
Utf8Byte(c) ==
    CASE c = "a" -> <<"6", "1">>
      [] c = "b" -> <<"6", "2">>
      [] c = "A" -> <<"4", "1">>
      [] c = "z" -> <<"7", "a">>

Utf8Encode(s) == [i \in 1..Len(s) |-> Utf8Byte(s[i])]

\* createCommitment(value, randomness)
CreateCommitment(value, randomness) ==
    Sha256(Utf8Encode(value) \o HexDecode(randomness))

\* generateNullifier(voterId, ballotId)
GenerateNullifier(voterId, ballotId) ==
    Sha256(HexDecode(voterId) \o HexDecode(ballotId))

\* generateVoterCommitment(voterId)
GenerateVoterCommitment(voterId) == Sha256(HexDecode(voterId))

\* None of the three functions has a throw statement, and Buffer.from,
\* Buffer.concat and sha256 take strings of every length.
DerivationThrows(first, second) == FALSE

CrInit ==
    /\ crFirst \in InputStrings
    /\ crSecond \in InputStrings
    /\ crRet = [op |-> "new"]

CrCreateCommitment ==
    /\ crRet.op = "new"
    /\ crRet' = [op |-> "createCommitment",
                 threw |-> DerivationThrows(crFirst, crSecond),
                 value |-> CreateCommitment(crFirst, crSecond)]
    /\ UNCHANGED <<crFirst, crSecond>>

CrGenerateNullifier ==
    /\ crRet.op = "new"
    /\ crRet' = [op |-> "generateNullifier",
                 threw |-> DerivationThrows(crFirst, crSecond),
                 value |-> GenerateNullifier(crFirst, crSecond)]
    /\ UNCHANGED <<crFirst, crSecond>>

CrGenerateVoterCommitment ==
    /\ crRet.op = "new"
    /\ crRet' = [op |-> "generateVoterCommitment",
                 threw |-> DerivationThrows(crFirst, crFirst),
                 value |-> GenerateVoterCommitment(crFirst)]
    /\ UNCHANGED <<crFirst, crSecond>>

CrFrame == UNCHANGED <<vsVars, regVars, shVars, thVars, mkVars, imVars, hdVars, invVars, rcVars, dvVars, smVars, blVars, rvVars, dgVars>>

CrNext ==
    \/ CrCreateCommitment /\ CrFrame
    \/ CrGenerateNullifier /\ CrFrame
    \/ CrGenerateVoterCommitment /\ CrFrame

CrIdle ==
    /\ crFirst = <<>>
    /\ crSecond = <<>>
    /\ crRet = [op |-> "idle"]

(***************************************************************************)
(* BallotService: createBallot, addCandidate and updateBallotStatus over   *)
(* the ballots and candidates maps.  generateId() yields an id that is not *)
(* in use; a ballot is kept as its status and merkleRoot, its candidates   *)
(* as the list of their names.                                             *)
(***************************************************************************)
MaxBlCandidates == 2

BlBallotIds    == {"b1", "b2"}
AnyBlBallotId  == BlBallotIds \cup {"bx"}
BlNames        == {"n1"}

\* enum BallotStatus
BallotStatus == {"draft", "active", "closed", "tallied"}
AnyBlStatus  == BallotStatus \cup {"archived"}

\* validTransitions of updateBallotStatus
ValidTransitions(currentStatus) ==
    CASE currentStatus = "draft"  -> {"active"}
      [] currentStatus = "active" -> {"closed"}
      [] currentStatus = "closed" -> {"tallied"}
      [] OTHER                    -> {}

NullRoot      == "null"
GeneratedRoot == "generated"

BlInit ==
    /\ blBallots = <<>>
    /\ blCandidates = <<>>
    /\ blRet = [op |-> "new"]

\* createBallot(dto)
CreateBallot(ballotId) ==
    /\ blBallots' = (ballotId :> [status |-> "draft", merkleRoot |-> NullRoot])
                    @@ blBallots
    /\ blCandidates' = (ballotId :> <<>>) @@ blCandidates
    /\ blRet' = [op |-> "createBallot", ballotId |-> ballotId]

BlCreateBallot ==
    \E ballotId \in BlBallotIds \ DOMAIN blBallots : CreateBallot(ballotId)

\* this.candidates.get(ballotId) || []
BallotCandidates(ballotId) ==
    IF ballotId \in DOMAIN blCandidates THEN blCandidates[ballotId] ELSE <<>>

\* addCandidate(ballotId, dto)
AddCandidate(ballotId, name) ==
    IF ballotId \notin DOMAIN blBallots
    THEN /\ blRet' = [op |-> "addCandidate", ballotId |-> ballotId,
                      outcome |-> "NotFoundException"]
         /\ UNCHANGED <<blBallots, blCandidates>>
    ELSE IF blBallots[ballotId].status # "draft"
    THEN /\ blRet' = [op |-> "addCandidate", ballotId |-> ballotId,
                      outcome |-> "BadRequestException"]
         /\ UNCHANGED <<blBallots, blCandidates>>
    ELSE /\ blCandidates' = (ballotId :> Append(BallotCandidates(ballotId), name))
                             @@ blCandidates
         /\ blRet' = [op |-> "addCandidate", ballotId |-> ballotId,
                      outcome |-> "success"]
         /\ UNCHANGED blBallots

BlAddCandidate ==
    \E ballotId \in AnyBlBallotId, name \in BlNames :
        /\ Len(BallotCandidates(ballotId)) < MaxBlCandidates
        /\ AddCandidate(ballotId, name)

\* The result of updateBallotStatus; before is the ballot as the call found
\* it.
StatusResult(ballotId, status, outcome, before) ==
    [op |-> "updateBallotStatus", ballotId |-> ballotId, status |-> status,
     outcome |-> outcome, before |-> before]

\* updateBallotStatus(ballotId, status)
UpdateBallotStatus(ballotId, status) ==
    IF ballotId \notin DOMAIN blBallots
    THEN /\ blRet' = [op |-> "updateBallotStatus", ballotId |-> ballotId,
                      status |-> status, outcome |-> "NotFoundException"]
         /\ UNCHANGED <<blBallots, blCandidates>>
    ELSE LET ballot == blBallots[ballotId] IN
         IF status \notin BallotStatus
            \/ status \notin ValidTransitions(ballot.status)
         THEN /\ blRet' = StatusResult(ballotId, status,
                                       "BadRequestException", ballot)
              /\ UNCHANGED <<blBallots, blCandidates>>
         ELSE IF status = "active" /\ ballot.merkleRoot = NullRoot
         THEN IF Len(BallotCandidates(ballotId)) = 0
              THEN /\ blBallots' = [blBallots EXCEPT
                                       ![ballotId].status = status]
                   /\ blRet' = StatusResult(ballotId, status,
                                            "BadRequestException", ballot)
                   /\ UNCHANGED blCandidates
              ELSE /\ blBallots' = [blBallots EXCEPT
                                       ![ballotId].status = status,
                                       ![ballotId].merkleRoot = GeneratedRoot]
                   /\ blRet' = StatusResult(ballotId, status, "success",
                                            ballot)
                   /\ UNCHANGED blCandidates
         ELSE /\ blBallots' = [blBallots EXCEPT ![ballotId].status = status]
              /\ blRet' = StatusResult(ballotId, status, "success", ballot)
              /\ UNCHANGED blCandidates

BlUpdateBallotStatus ==
    \E ballotId \in AnyBlBallotId, status \in AnyBlStatus :
        UpdateBallotStatus(ballotId, status)

BlFrame == UNCHANGED <<vsVars, regVars, shVars, thVars, mkVars, imVars, hdVars, invVars, rcVars, dvVars, smVars, crVars, rvVars, dgVars>>

BlNext ==
    \/ BlCreateBallot /\ BlFrame
    \/ BlAddCandidate /\ BlFrame
    \/ BlUpdateBallotStatus /\ BlFrame

BlIdle ==
    /\ blBallots = <<>>
    /\ blCandidates = <<>>
    /\ blRet = [op |-> "new"]

(***************************************************************************)
(* RealTimeVerifier (modules/merkle-stream): addVote, verifyInclusion and  *)
(* getState.  Its stream is an IncrementalMerkleTree of its own, held in   *)
(* the variables of that tree.  A vote hash is a digest, so never the      *)
(* empty string.  publishedRoots is kept as the set of its keys.           *)
(***************************************************************************)
\* new IncrementalMerkleTree(): the default of maxCheckpoints, in the same
\* proportion to CheckpointInterval as in the program.
DefaultMaxCheckpoints == 2

VoteHashes == Commitments

NullLeaf == <<"null", <<>>>>

\* getLeaf(index): this.leaves[index] || null
GetLeaf(leaves, index) ==
    IF index >= 0 /\ index < Len(leaves) /\ leaves[index + 1] # EmptyBuffer
    THEN leaves[index + 1]
    ELSE NullLeaf

RvInit ==
    /\ imLeaves = <<>>
    /\ imRoot = EmptyBuffer
    /\ imCheckpoints = <<>>
    /\ imMaxCheckpoints = DefaultMaxCheckpoints
    /\ imRootAfter = <<>>
    /\ imRet = [op |-> "new"]
    /\ rvVerified = {}
    /\ rvPublished = {}
    /\ rvPlaced = <<>>
    /\ rvRet = [op |-> "new"]

\* addVote appending whatever it is given.
AddVote_NoDuplicateCheck(voteHash) ==
    /\ ImAppend(voteHash)
    /\ rvVerified' = rvVerified \cup {voteHash}
    /\ rvPublished' = rvPublished \cup {imRet'.update.newRoot}
    /\ rvPlaced' = Append(rvPlaced, [voteHash |-> voteHash,
                                     position |-> imRet'.update.leafCount - 1])
    /\ rvRet' = [op |-> "addVote", voteHash |-> voteHash, outcome |-> "verified",
                 newRoot  |-> imRet'.update.newRoot,
                 position |-> imRet'.update.leafCount - 1]

\* addVote(voteHash)
AddVote(voteHash) ==
    IF voteHash \in rvVerified
    THEN /\ rvRet' = [op |-> "addVote", voteHash |-> voteHash,
                      outcome |-> "throws"]
         /\ UNCHANGED <<imVars, rvVerified, rvPublished, rvPlaced>>
    ELSE /\ ImAppend(voteHash)
         /\ rvVerified' = rvVerified \cup {voteHash}
         /\ rvPublished' = rvPublished \cup {imRet'.update.newRoot}
         /\ rvPlaced' = Append(rvPlaced, [voteHash |-> voteHash,
                                          position |-> imRet'.update.leafCount - 1])
         /\ rvRet' = [op |-> "addVote", voteHash |-> voteHash,
                      outcome  |-> "verified",
                      newRoot  |-> imRet'.update.newRoot,
                      position |-> imRet'.update.leafCount - 1]

RvAddVote == \E voteHash \in VoteHashes : AddVote(voteHash)

\* verifyInclusion(voteHash, position)
VerifyInclusion(voteHash, position) == GetLeaf(imLeaves, position) = voteHash

RvVerifyInclusion ==
    \E voteHash \in VoteHashes, position \in -1..Len(imLeaves) :
        /\ rvRet' = [op |-> "verifyInclusion", voteHash |-> voteHash,
                     position |-> position,
                     ok |-> VerifyInclusion(voteHash, position)]
        /\ UNCHANGED <<imVars, rvVerified, rvPublished, rvPlaced>>

\* getState()
GetState ==
    [currentRoot        |-> imRoot,
     totalVotes         |-> Len(imLeaves),
     verifiedCount      |-> Cardinality(rvVerified),
     publishedRootCount |-> Cardinality(rvPublished)]

RvFrame == UNCHANGED <<vsVars, regVars, shVars, thVars, mkVars, hdVars, invVars, rcVars, dvVars, smVars, crVars, blVars, dgVars>>

RvNext ==
    \/ RvAddVote /\ RvFrame
    \/ RvVerifyInclusion /\ RvFrame

RvIdle ==
    /\ rvVerified = {}
    /\ rvPublished = {}
    /\ rvPlaced = <<>>
    /\ rvRet = [op |-> "new"]

(***************************************************************************)
(* DelegationRegistry (modules/delegation): delegate, revokeDelegation,    *)
(* castDirectVote, wouldCreateCycle and calculateVoteWeight.  The key      *)
(* `${delegatorId}-${ballotId}` of delegations is the pair of the two ids, *)
(* which contain no '-'.  A delegation is kept as its delegateId and its   *)
(* active flag.                                                            *)
(***************************************************************************)
MaxDgCalls == 3

DgVoters  == {"v1", "v2", "v3"}
DgBallots == {"e1", "e2"}

\* '' where the code follows `this.delegationsByDelegator.get(current) || ''`
NoDelegate == ""

\* What calculateVoteWeight yields when its recursion never returns
\* (RangeError: Maximum call stack size exceeded).
Diverges == [returns |-> FALSE, weight |-> 0]

\* Map.get(key) || ''
DelegateOf(byDelegator, voterId) ==
    IF voterId \in DOMAIN byDelegator THEN byDelegator[voterId] ELSE NoDelegate

\* Map.get(key), an absent entry read as the empty set
DelegatorsOf(byDelegate, voterId) ==
    IF voterId \in DOMAIN byDelegate THEN byDelegate[voterId] ELSE {}

\* Map.delete(key)
MapDelete(map, key) == [k \in DOMAIN map \ {key} |-> map[k]]

DgInit ==
    /\ dgDelegations = <<>>
    /\ dgByDelegator = <<>>
    /\ dgByDelegate = <<>>
    /\ dgVotesCast = {}
    /\ dgCalls = 0
    /\ dgRet = [op |-> "new"]

\* The while loop of wouldCreateCycle, from current on.
RECURSIVE CycleLoop(_, _, _, _)
CycleLoop(byDelegator, delegatorId, current, visited) ==
    IF current = NoDelegate THEN FALSE
    ELSE IF current \in visited THEN TRUE
    ELSE IF current = delegatorId THEN TRUE
    ELSE CycleLoop(byDelegator, delegatorId, DelegateOf(byDelegator, current),
                   visited \cup {current})

\* wouldCreateCycle(delegatorId, delegateId)
WouldCreateCycle(byDelegator, delegatorId, delegateId) ==
    CycleLoop(byDelegator, delegatorId, delegateId, {})

\* revokeDelegation(delegatorId, ballotId) on the three maps: the maps after
\* the call and the value it returns.
Revoked(delegations, byDelegator, byDelegate, delegatorId, ballotId) ==
    LET delegationId == <<delegatorId, ballotId>> IN
    IF delegationId \notin DOMAIN delegations \/ ~delegations[delegationId].active
    THEN [delegations |-> delegations, byDelegator |-> byDelegator,
          byDelegate |-> byDelegate, result |-> FALSE]
    ELSE LET delegateId == delegations[delegationId].delegateId IN
         [delegations |-> [delegations EXCEPT ![delegationId].active = FALSE],
          byDelegator |-> MapDelete(byDelegator, delegatorId),
          byDelegate  |-> IF delegateId \in DOMAIN byDelegate
                          THEN [byDelegate EXCEPT ![delegateId] = @ \ {delegatorId}]
                          ELSE byDelegate,
          result      |-> TRUE]

\* delegate(delegatorId, delegateId, ballotId)
Delegate(delegatorId, delegateId, ballotId) ==
    IF delegatorId = delegateId
       \/ WouldCreateCycle(dgByDelegator, delegatorId, delegateId)
    THEN /\ dgRet' = [op |-> "delegate", outcome |-> "throws"]
         /\ UNCHANGED <<dgDelegations, dgByDelegator, dgByDelegate, dgVotesCast>>
    ELSE LET after == Revoked(dgDelegations, dgByDelegator, dgByDelegate,
                              delegatorId, ballotId)
         IN  /\ dgDelegations' = (<<delegatorId, ballotId>> :>
                                     [delegateId |-> delegateId, active |-> TRUE])
                                 @@ after.delegations
             /\ dgByDelegator' = (delegatorId :> delegateId) @@ after.byDelegator
             /\ dgByDelegate' = (delegateId :>
                                    (DelegatorsOf(after.byDelegate, delegateId)
                                        \cup {delegatorId}))
                                @@ after.byDelegate
             /\ dgRet' = [op |-> "delegate", outcome |-> "delegation"]
             /\ UNCHANGED dgVotesCast

DgDelegate ==
    /\ dgCalls < MaxDgCalls
    /\ dgCalls' = dgCalls + 1
    /\ \E delegatorId \in DgVoters, delegateId \in DgVoters, ballotId \in DgBallots :
          Delegate(delegatorId, delegateId, ballotId)

\* revokeDelegation(delegatorId, ballotId)
RevokeDelegation(delegatorId, ballotId) ==
    LET after == Revoked(dgDelegations, dgByDelegator, dgByDelegate,
                         delegatorId, ballotId)
    IN  /\ dgDelegations' = after.delegations
        /\ dgByDelegator' = after.byDelegator
        /\ dgByDelegate' = after.byDelegate
        /\ dgRet' = [op |-> "revokeDelegation", outcome |-> after.result]
        /\ UNCHANGED dgVotesCast

DgRevokeDelegation ==
    /\ dgCalls < MaxDgCalls
    /\ dgCalls' = dgCalls + 1
    /\ \E delegatorId \in DgVoters, ballotId \in DgBallots :
          RevokeDelegation(delegatorId, ballotId)

\* castDirectVote(voterId, ballotId)
CastDirectVote(voterId, ballotId) ==
    LET after == Revoked(dgDelegations, dgByDelegator, dgByDelegate,
                         voterId, ballotId)
    IN  /\ dgDelegations' = after.delegations
        /\ dgByDelegator' = after.byDelegator
        /\ dgByDelegate' = after.byDelegate
        /\ dgVotesCast' = dgVotesCast \cup {voterId}
        /\ dgRet' = [op |-> "castDirectVote", outcome |-> "void"]

DgCastDirectVote ==
    /\ dgCalls < MaxDgCalls
    /\ dgCalls' = dgCalls + 1
    /\ \E voterId \in DgVoters, ballotId \in DgBallots :
          CastDirectVote(voterId, ballotId)

\* The forEach of calculateVoteWeight over a set of delegators: the sum of
\* their weights, or Diverges if the call for one of them does not return.
RECURSIVE WeightFrom(_, _)
RECURSIVE SumOfWeights(_, _)
SumOfWeights(delegators, stack) ==
    IF delegators = {} THEN [returns |-> TRUE, weight |-> 0]
    ELSE LET d    == CHOOSE x \in delegators : TRUE
             own  == WeightFrom(d, stack)
             rest == SumOfWeights(delegators \ {d}, stack)
         IN  IF own.returns /\ rest.returns
             THEN [returns |-> TRUE, weight |-> own.weight + rest.weight]
             ELSE Diverges

\* calculateVoteWeight(voterId) called while the calls in stack are open: a
\* call for a voter whose call is open repeats it without end.
WeightFrom(voterId, stack) ==
    IF voterId \in stack THEN Diverges
    ELSE LET counted == {d \in DelegatorsOf(dgByDelegate, voterId) :
                            d \notin dgVotesCast}
             below   == SumOfWeights(counted, stack \cup {voterId})
         IN  IF below.returns
             THEN [returns |-> TRUE, weight |-> 1 + below.weight]
             ELSE Diverges

\* calculateVoteWeight(voterId)
CalculateVoteWeight(voterId) == WeightFrom(voterId, {})

\* The voters found from voterId along the delegate-to-delegators index in
\* at most n steps, one step or more.
RECURSIVE DelegatorsWithin(_, _)
DelegatorsWithin(voterId, n) ==
    IF n = 0 THEN {}
    ELSE LET direct == DelegatorsOf(dgByDelegate, voterId)
         IN  direct \cup UNION {DelegatorsWithin(d, n - 1) : d \in direct}

DgFrame == UNCHANGED <<vsVars, regVars, shVars, thVars, mkVars, imVars, hdVars, invVars, rcVars, dvVars, smVars, crVars, blVars, rvVars>>

DgNext ==
    \/ DgDelegate /\ DgFrame
    \/ DgRevokeDelegation /\ DgFrame
    \/ DgCastDirectVote /\ DgFrame

DgIdle ==
    /\ dgDelegations = <<>>
    /\ dgByDelegator = <<>>
    /\ dgByDelegate = <<>>
    /\ dgVotesCast = {}
    /\ dgCalls = 0
    /\ dgRet = [op |-> "new"]

\* VoteService alone; the other components are not in use.
InitVote == VsInit /\ RegIdle /\ ShIdle /\ ThIdle /\ MkIdle /\ ImIdle /\ HdIdle /\ InvIdle /\ RcIdle /\ DvIdle /\ SmIdle /\ CrIdle /\ BlIdle /\ RvIdle /\ DgIdle

\* VoteService, castVote calls interleaving at their await.
SpecVote == InitVote /\ [][VsNext]_vars

\* VoteService, castVote calls one after the other.
SpecVoteSeq == InitVote /\ [][VsSeqNext]_vars

InitRegistry == RegInit /\ VsIdle /\ ShIdle /\ ThIdle /\ MkIdle /\ ImIdle /\ HdIdle /\ InvIdle /\ RcIdle /\ DvIdle /\ SmIdle /\ CrIdle /\ BlIdle /\ RvIdle /\ DgIdle

\* VotingRegistry under any sequence of registerVote and closeBallot transactions.
SpecRegistry == InitRegistry /\ [][RegNext]_vars

InitShamir == ShInit /\ VsIdle /\ RegIdle /\ ThIdle /\ MkIdle /\ ImIdle /\ HdIdle /\ InvIdle /\ RcIdle /\ DvIdle /\ SmIdle /\ CrIdle /\ BlIdle /\ RvIdle /\ DgIdle

\* split on every (secret, k, n) and coefficient draw, then combine on every
\* non-empty set of the shares.
SpecShamir == InitShamir /\ [][ShNext]_vars

InitThreshold == ThInit /\ VsIdle /\ RegIdle /\ ShIdle /\ MkIdle /\ ImIdle /\ HdIdle /\ InvIdle /\ RcIdle /\ DvIdle /\ SmIdle /\ CrIdle /\ BlIdle /\ RvIdle /\ DgIdle

\* ThresholdVotingSystem under any sequence of its calls.
SpecThreshold == InitThreshold /\ [][ThNext]_vars

InitMerkle == MkInit /\ VsIdle /\ RegIdle /\ ShIdle /\ ThIdle /\ ImIdle /\ HdIdle /\ InvIdle /\ RcIdle /\ DvIdle /\ SmIdle /\ CrIdle /\ BlIdle /\ RvIdle /\ DgIdle

\* A registry tree over any list of commitments; a proof is generated for any
\* value and then checked with any of the sibling lists.
SpecMerkle == InitMerkle /\ [][MkNext]_vars

InitStream == ImInit /\ VsIdle /\ RegIdle /\ ShIdle /\ ThIdle /\ MkIdle /\ HdIdle /\ InvIdle /\ RcIdle /\ DvIdle /\ SmIdle /\ CrIdle /\ BlIdle /\ RvIdle /\ DgIdle

\* An incremental tree under any sequence of appends, proof requests and
\* update verifications.
SpecStream == InitStream /\ [][ImNext]_vars

InitHiding == HdInit /\ VsIdle /\ RegIdle /\ ShIdle /\ ThIdle /\ MkIdle /\ ImIdle /\ InvIdle /\ RcIdle /\ DvIdle /\ SmIdle /\ CrIdle /\ BlIdle /\ RvIdle /\ DgIdle

\* Any set of fewer than threshold share positions, holding any values.
SpecHiding == InitHiding /\ [][HdNext]_vars

InitInverse == InvInit /\ VsIdle /\ RegIdle /\ ShIdle /\ ThIdle /\ MkIdle /\ ImIdle /\ HdIdle /\ RcIdle /\ DvIdle /\ SmIdle /\ CrIdle /\ BlIdle /\ RvIdle /\ DgIdle

\* modInverse applied to any operand, modulo the field's prime.
SpecInverse == InitInverse /\ [][InvNext]_vars

InitRecovery == RcInit /\ VsIdle /\ RegIdle /\ ShIdle /\ ThIdle /\ MkIdle /\ ImIdle /\ HdIdle /\ InvIdle /\ DvIdle /\ SmIdle /\ CrIdle /\ BlIdle /\ RvIdle /\ DgIdle

\* VoteRecoverySystem: setup, requests, approvals, execution and guardian updates.
SpecRecovery == InitRecovery /\ [][RcNext]_vars

\* VoteRecoverySystem with cancelRecovery among the calls.
SpecRecoveryCancel == InitRecovery /\ [][RcCancelNext]_vars

InitDevices == DvInit /\ VsIdle /\ RegIdle /\ ShIdle /\ ThIdle /\ MkIdle /\ ImIdle /\ HdIdle /\ InvIdle /\ RcIdle /\ SmIdle /\ CrIdle /\ BlIdle /\ RvIdle /\ DgIdle

\* MultiDeviceRecovery: setupDevices and recoverFromDevices.
SpecDevices == InitDevices /\ [][DvNext]_vars

InitSparse == SmInit /\ VsIdle /\ RegIdle /\ ShIdle /\ ThIdle /\ MkIdle /\ ImIdle /\ HdIdle /\ InvIdle /\ RcIdle /\ DvIdle /\ CrIdle /\ BlIdle /\ RvIdle /\ DgIdle

\* SparseMerkleTree: insert and generateProof on a tree of any small depth.
SpecSparse == InitSparse /\ [][SmNext]_vars

InitCrypto == CrInit /\ VsIdle /\ RegIdle /\ ShIdle /\ ThIdle /\ MkIdle /\ ImIdle /\ HdIdle /\ InvIdle /\ RcIdle /\ DvIdle /\ SmIdle /\ BlIdle /\ RvIdle /\ DgIdle

\* The commitment and nullifier derivations applied to any two short strings.
SpecCrypto == InitCrypto /\ [][CrNext]_vars

InitBallots == BlInit /\ VsIdle /\ RegIdle /\ ShIdle /\ ThIdle /\ MkIdle /\ ImIdle /\ HdIdle /\ InvIdle /\ RcIdle /\ DvIdle /\ SmIdle /\ CrIdle /\ RvIdle /\ DgIdle

\* BallotService: ballots created, given candidates and moved through their statuses.
SpecBallots == InitBallots /\ [][BlNext]_vars

InitVerifier == RvInit /\ VsIdle /\ RegIdle /\ ShIdle /\ ThIdle /\ MkIdle /\ HdIdle /\ InvIdle /\ RcIdle /\ DvIdle /\ SmIdle /\ CrIdle /\ BlIdle /\ DgIdle

\* RealTimeVerifier: votes added to its stream and inclusion queried.
SpecVerifier == InitVerifier /\ [][RvNext]_vars

InitDelegation == DgInit /\ VsIdle /\ RegIdle /\ ShIdle /\ ThIdle /\ MkIdle /\ ImIdle /\ HdIdle /\ InvIdle /\ RcIdle /\ DvIdle /\ SmIdle /\ CrIdle /\ BlIdle /\ RvIdle

\* DelegationRegistry: delegations registered, revoked and overridden by direct votes.
SpecDelegation == InitDelegation /\ [][DgNext]_vars

(***************************************************************************)
(* VoteService: claims                                                     *)
(***************************************************************************)
SameVoterAndBallot(c, d) ==
    /\ calls[c].voterId = calls[d].voterId
    /\ calls[c].ballotId = calls[d].ballotId

\* Both calls had started before either had finished.
Overlapped(c, d) == c \in calls[d].concurrent \/ d \in calls[c].concurrent

DoubleVoteRejections == {"AlreadyVoted", "DoubleVote"}
Rejections == {"NotRegistered", "AlreadyVoted", "DoubleVote", "InvalidProof"}

VotesWithNullifier(n) == {e \in votes : e.nullifier = n}

\* C1: of two overlapping castVote calls for the same voter and ballot, each with
\* a proof that verifies, exactly one is accepted and the other is rejected as a
\* double vote, and exactly one vote is stored for the voter's nullifier.
C1_OverlappingCastsExactlyOneAccepted ==
    \A c, d \in CallIds :
        ( /\ c # d
          /\ calls[c].pc = "done" /\ calls[d].pc = "done"
          /\ SameVoterAndBallot(c, d)
          /\ calls[c].proofOk /\ calls[d].proofOk
          /\ Overlapped(c, d) )
        => LET n == VsGenerateNullifier(calls[c].voterId, calls[c].ballotId)
           IN /\ \/ calls[c].result = "Accepted" /\ calls[d].result \in DoubleVoteRejections
                 \/ calls[d].result = "Accepted" /\ calls[c].result \in DoubleVoteRejections
              /\ n \in nullifiers
              /\ Cardinality(VotesWithNullifier(n)) = 1

AcceptedCalls(v, b) ==
    {c \in CallIds : /\ calls[c].result = "Accepted"
                     /\ calls[c].voterId = v /\ calls[c].ballotId = b}

\* C2: with castVote calls run one after the other, at most one call per voter
\* and ballot is accepted, every call for that voter and ballot made after the
\* accepted one is rejected, and no stored vote or nullifier is ever replaced
\* or removed.
C2_SequentialAtMostOneAccepted ==
    /\ [](\A v \in VoterIds, b \in BallotIds :
            /\ Cardinality(AcceptedCalls(v, b)) <= 1
            /\ \A c \in AcceptedCalls(v, b), d \in CallIds :
                  (d > c /\ calls[d].pc = "done" /\ calls[d].voterId = v
                         /\ calls[d].ballotId = b)
                  => calls[d].result \in Rejections)
    /\ [][votes \subseteq votes' /\ nullifiers \subseteq nullifiers']_vars

C2_Witness ==
    \E c, d \in CallIds :
        /\ c < d
        /\ SameVoterAndBallot(c, d)
        /\ calls[c].result = "Accepted"
        /\ calls[d].result \in DoubleVoteRejections
        /\ calls[d].proofOk
        /\ Cardinality(votes) = 1

\* C4: the steps of a castVote call that is not accepted (its rejection, and its
\* suspension at the await) leave the nullifier set, the stored votes and every
\* voter record, hasVoted included, as they were.
C4_RejectionLeavesStateUnchanged ==
    [][\A c \in CallIds :
          (calls'[c] # calls[c] /\ calls'[c].result # "Accepted")
          => UNCHANGED <<voters, votes, nullifiers>>]_vars

\* A call by a voter who has not voted, rejected because the nullifier is in
\* use, with a vote stored.
C4_Witness ==
    /\ \E c \in CallIds : calls[c].result = "DoubleVote"
    /\ nullifiers # {}
    /\ votes # {}

(***************************************************************************)
(* VotingRegistry: claims                                                  *)
(***************************************************************************)
\* C3: no nullifier is accepted by more than one successful registerVote, and
\* the nullifier of every successful registerVote is reported by hasNullifier
\* in every later state.
C3_NullifiersAcceptedOnceAndKept ==
    \A n \in RegNullifiers :
        /\ rAccepted[n] <= 1
        /\ rAccepted[n] >= 1 => HasNullifier(rNullifiers, n)

RegisterVoteSucceeded == rLast.op = "registerVote" /\ rLast.ok

\* C5: registerVote succeeds only while the ballot is active and the
\* transaction time lies in [startTime, endTime]; once the ballot is closed,
\* isActive stays false, no registerVote succeeds, and the nullifier array,
\* voteCounts and totalVotes stay as they are.
C5_VotesOnlyWhileOpenAndNoneAfterClose ==
    /\ [][RegisterVoteSucceeded'
            => /\ rIsActive
               /\ rLast'.locktime >= rProps.startTime
               /\ rLast'.locktime <= rProps.endTime]_vars
    /\ [][~rIsActive
            => /\ ~rIsActive'
               /\ ~RegisterVoteSucceeded'
               /\ UNCHANGED <<rNullifiers, rVoteCounts, rTotalVotes>>]_vars

\* A registerVote inside the voting period that failed on a closed ballot which
\* holds votes.
C5_Witness ==
    /\ ~rIsActive
    /\ rTotalVotes > 0
    /\ rLast.op = "registerVote" /\ ~rLast.ok
    /\ rLast.locktime >= rProps.startTime /\ rLast.locktime <= rProps.endTime

(***************************************************************************)
(* ShamirSecretSharing: claims                                             *)
(***************************************************************************)
\* C6: combine on any set of at least k of the n shares of split(secret, k, n),
\* each keyed by its 1-based position, returns secret, whatever the random
\* coefficients were.
C6_CombineOfAtLeastKSharesIsSecret ==
    (shPc = "combined" /\ Cardinality(shPicked) >= shK) => shResult = shSecret

\* 3-of-4 with a polynomial of full degree, reconstructed from shares 1, 3, 4.
C6_Witness ==
    /\ shPc = "combined"
    /\ shK = 3 /\ shN = 4
    /\ shPicked = {1, 3, 4}
    /\ shResult = shSecret
    /\ shShares[1] # shSecret /\ shShares[3] # shShares[4]
    /\ Combine(ShareMap(shShares, {1, 3})) # shSecret

(***************************************************************************)
(* ThresholdVotingSystem: claims                                           *)
(***************************************************************************)
\* The authorities whose submission for the candidate was accepted.
Submitters(candidateId) ==
    {tPartials[candidateId][i].authorityId : i \in 1..Len(tPartials[candidateId])}

SubmittersWithShare(candidateId) ==
    {a \in Submitters(candidateId) : Len(tShares[a]) > 0}

TalliedCandidates(results) == {r.candidateId : r \in results}

\* C7: tallyVotes returns a result for a candidate only if at least threshold
\* distinct authorities, each holding a share, had a partial decryption
\* accepted for it.
C7_TallyOnlyWithQuorumOfDistinctAuthorities ==
    tRet.op = "tallyVotes"
    => \A c \in ThCandidates :
          c \in TalliedCandidates(tRet.results)
          => Cardinality(SubmittersWithShare(c)) >= tThreshold

\* With threshold 2, tallyVotes returned a result for one candidate and none
\* for another that has a submission.
C7_Witness ==
    /\ tRet.op = "tallyVotes"
    /\ tThreshold = 2
    /\ \E c, d \in ThCandidates :
          /\ c \in TalliedCandidates(tRet.results)
          /\ d \notin TalliedCandidates(tRet.results)
          /\ Len(tPartials[d]) > 0

\* C8: whenever at least threshold distinct authorities have had a partial
\* decryption accepted for a candidate, repeated submissions included, the
\* next tallyVotes returns a result for that candidate.
C8_QuorumOfDistinctAuthoritiesIsTallied ==
    \A c \in ThCandidates :
        Cardinality(Submitters(c)) >= tThreshold
        => c \in TalliedCandidates(TallyVotes)

\* C9: the contributions stored for a candidate hold at most one entry per
\* authority, so the submitted count of getTallyStatus is the number of
\* distinct authorities that submitted for the candidate.
C9_OneContributionPerAuthority ==
    /\ \A c \in ThCandidates :
          \A i, j \in 1..Len(tPartials[c]) :
              tPartials[c][i].authorityId = tPartials[c][j].authorityId => i = j
    /\ \A st \in GetTallyStatus :
          st.submitted = Cardinality(Submitters(st.candidateId))

\* The step appends one contribution of the authority to one candidate's list.
RecordsContribution(authorityId) ==
    \E c \in ThCandidates, r \in ThPartialResults :
        tPartials' = [tPartials EXCEPT ![c] =
                        Append(@, [authorityId |-> authorityId, partialResult |-> r])]

\* C10: submitPartialDecryption returns true and records a contribution only
\* for a configured authority that is active and holds a share; otherwise it
\* returns false and no contribution, share or vote changes.
C10_SubmissionOnlyFromActiveSharedAuthority ==
    [][tRet'.op = "submitPartialDecryption"
         => LET a == tRet'.authorityId
                valid == /\ a \in AuthorityIds
                         /\ tActive[a]
                         /\ Len(tShares[a]) > 0
            IN /\ tRet'.ok = valid
               /\ tRet'.ok => RecordsContribution(a)
               /\ ~tRet'.ok => UNCHANGED tPartials
               /\ UNCHANGED <<tShares, tEncVotes, tActive>>]_vars

\* An accepted submission is stored, and the call after it, by an authority that
\* holds a share but is inactive, returned false.
C10_Witness ==
    /\ tRet.op = "submitPartialDecryption"
    /\ ~tRet.ok
    /\ tRet.authorityId \in AuthorityIds
    /\ Len(tShares[tRet.authorityId]) > 0
    /\ ~tActive[tRet.authorityId]
    /\ TotalPartials > 0

\* Authorities that submitted for the candidate and are inactive now. An
\* inactive authority's submission is never accepted, so each of them was
\* deactivated after it submitted.
DeactivatedSubmitters(candidateId) ==
    {a \in Submitters(candidateId) \cap AuthorityIds : ~tActive[a]}

\* C11: deactivating an authority does not remove what it contributed: when
\* at least threshold distinct authorities submitted for a candidate and some
\* of them were deactivated afterwards, tallyVotes still returns that
\* candidate's result.
C11_DeactivationKeepsEarlierContributions ==
    \A c \in ThCandidates :
        /\ Cardinality(Submitters(c)) >= tThreshold
        /\ DeactivatedSubmitters(c) # {}
        => c \in TalliedCandidates(TallyVotes)

(***************************************************************************)
(* Voter registry Merkle tree                                              *)
(***************************************************************************)
Registered(x) == x \in Range(mkLeaves)

\* C12: for a non-empty leaf list and any of its elements,
\* generateMerkleProof returns a proof that is marked verified, carries the
\* tree's root and is accepted by verifyMerkleProof; single leaves and odd
\* leaf counts included.
C12_MemberProofVerifies ==
    /\ (mkRet.op = "generateMerkleProof" /\ Registered(mkRet.result.leaf))
        => /\ mkRet.result.verified
           /\ mkRet.result.root = GetMerkleRoot(MkTree)
           /\ VerifyMerkleProof(mkRet.result.leaf, mkRet.result.proof,
                                mkRet.result.indices, mkRet.result.root)
    /\ (/\ mkRet.op = "verifyMerkleProof"
        /\ Registered(mkRet.leaf)
        /\ mkRet.proof = GenerateMerkleProof(MkTree, mkRet.leaf).proof
        /\ mkRet.indices = GenerateMerkleProof(MkTree, mkRet.leaf).indices)
        => mkRet.ok

\* The third leaf of a three-leaf tree, which has no sibling in the leaf
\* layer, was proved and its proof accepted.
C12_Witness ==
    /\ mkRet.op = "verifyMerkleProof"
    /\ Len(mkLeaves) = 3
    /\ mkRet.leaf = mkLeaves[3]
    /\ mkRet.leaf \notin {mkLeaves[1], mkLeaves[2]}
    /\ mkRet.proof = GenerateMerkleProof(MkTree, mkRet.leaf).proof
    /\ Len(mkRet.proof) = 1
    /\ mkRet.ok

\* C13: for a value that is not in the leaf list, generateMerkleProof reports
\* verified = false, and no sibling list makes verifyMerkleProof accept the
\* value against the tree's root.
C13_NonMemberNeverVerifies ==
    /\ (mkRet.op = "generateMerkleProof" /\ ~Registered(mkRet.result.leaf))
        => ~mkRet.result.verified
    /\ (mkRet.op = "verifyMerkleProof" /\ ~Registered(mkRet.leaf))
        => ~mkRet.ok

\* The sibling list differs from the leaf's own proof in exactly one place.
OneSiblingReplaced(proof, genuine) ==
    /\ Len(proof) = Len(genuine)
    /\ Cardinality({i \in 1..Len(proof) : proof[i] # genuine[i]}) = 1

\* C14: a registered leaf's proof with one sibling replaced by a different
\* value is rejected by verifyMerkleProof.
C14_TamperedSiblingRejected ==
    (/\ mkRet.op = "verifyMerkleProof"
     /\ Registered(mkRet.leaf)
     /\ OneSiblingReplaced(mkRet.proof, GenerateMerkleProof(MkTree, mkRet.leaf).proof))
    => ~mkRet.ok

\* In a four-leaf tree the upper sibling of a leaf's proof was replaced, by a
\* node of the tree itself, and the proof was rejected.
C14_Witness ==
    /\ mkRet.op = "verifyMerkleProof"
    /\ Len(mkLeaves) = 4
    /\ Registered(mkRet.leaf)
    /\ Len(mkRet.proof) = 2
    /\ mkRet.proof[1] = GenerateMerkleProof(MkTree, mkRet.leaf).proof[1]
    /\ mkRet.proof[2] # GenerateMerkleProof(MkTree, mkRet.leaf).proof[2]
    /\ mkRet.proof[2] \in TreeNodes(MkTree)
    /\ ~mkRet.ok

\* C15: buildMerkleTree yields the same root for every permutation of the
\* leaf list.
C15_RootIndependentOfLeafOrder ==
    \A f \in Permutations(1..Len(mkLeaves)) :
        GetMerkleRoot(BuildMerkleTree([i \in 1..Len(mkLeaves) |-> mkLeaves[f[i]]]))
            = GetMerkleRoot(MkTree)

(***************************************************************************)
(* Incremental Merkle stream                                               *)
(***************************************************************************)
\* C16: after appending the leaves one at a time, the incremental tree's
\* root equals the root buildMerkleTree gives for the same leaves, at every
\* length.
C16_IncrementalRootEqualsStaticRoot ==
    imRoot = GetMerkleRoot(BuildMerkleTree(imLeaves))

\* The proof elements are taken at increasing levels of the tree.
LevelsOf(proof, treeHeight) ==
    {f \in [1..Len(proof) -> 0..(treeHeight - 1)] :
        \A i, j \in 1..Len(proof) : i < j => f[i] < f[j]}

\* The hash reached from the leaf through the siblings, the bit of each
\* sibling's level telling whether the sibling stands on the right.
RECURSIVE RecomputeRoot(_, _, _, _, _)
RecomputeRoot(proof, indices, levels, i, currentHash) ==
    IF i > Len(proof) THEN currentHash
    ELSE RecomputeRoot(proof, indices, levels, i + 1,
            IF Bit(indices, levels[i]) = 1
                THEN ComputeParentHash(currentHash, proof[i])
                ELSE ComputeParentHash(proof[i], currentHash))

\* Some placing of the siblings on the levels of the tree leads to the root.
ProofLeadsToRoot(result, treeHeight) ==
    \E levels \in LevelsOf(result.proof, treeHeight) :
        RecomputeRoot(result.proof, result.indices, levels, 1, result.leaf) = result.root

\* C17: generateProof(i) for an index inside [0, leaf count) returns the i-th
\* appended leaf and the current root, and recomputing from the leaf through
\* the returned siblings, placed left or right by the returned bits, yields
\* that root; for an index outside the range it returns no proof.
C17_GenerateProofRecomputesRoot ==
    imRet.op = "generateProof" =>
        IF imRet.leafIndex >= 0 /\ imRet.leafIndex < Len(imLeaves)
            THEN /\ imRet.result # NoProof
                 /\ imRet.result.leaf = imLeaves[imRet.leafIndex + 1]
                 /\ imRet.result.root = imRoot
                 /\ ProofLeadsToRoot(imRet.result, CeilLog2(Len(imLeaves)))
            ELSE imRet.result = NoProof

\* The snapshot createCheckpoint took right after the append that brought the
\* leaf count to leafCount.
SnapshotAt(leafCount) ==
    [root      |-> imRootAfter[leafCount],
     leafCount |-> leafCount,
     height    |-> CeilLog2(leafCount)]

Min(a, b) == IF a < b THEN a ELSE b

\* C18: after n appends the checkpoint list holds exactly the most recent
\* min(floor(n / interval), maxCheckpoints) snapshots, in creation order: one
\* per multiple of the interval, each with the leaf count and the root the
\* tree had right after that append.
C18_CheckpointsAreLatestSnapshots ==
    LET taken == Len(imLeaves) \div CheckpointInterval
        kept  == Min(taken, imMaxCheckpoints)
    IN  /\ Len(imCheckpoints) = kept
        /\ \A i \in 1..kept :
              imCheckpoints[i] = SnapshotAt((taken - kept + i) * CheckpointInterval)

\* Two snapshots were taken and the tree keeps one: the first was dropped.
C18_Witness ==
    /\ imMaxCheckpoints = 1
    /\ Len(imLeaves) = 2 * CheckpointInterval
    /\ Len(imCheckpoints) = 1
    /\ imCheckpoints[1].leafCount = 2 * CheckpointInterval
    /\ imCheckpoints[1].root = imRoot
    /\ imRootAfter[CheckpointInterval] # imRoot

PathConsistent(update) ==
    /\ Len(update.affectedPath) > 0
    /\ update.affectedPath[1] = update.newLeaf
    /\ update.affectedPath[Len(update.affectedPath)] = update.newRoot

\* C19: verifyUpdate accepts an update exactly when its affected path starts
\* at update.newLeaf and ends in update.newRoot, and its answer is the same
\* for every previousRoot.
C19_VerifyUpdateChecksPathEnds ==
    imRet.op = "verifyUpdate" =>
        /\ imRet.ok = PathConsistent(imRet.update)
        /\ \A previousRoot \in PreviousRoots :
              VerifyUpdate(imRet.update, previousRoot) = imRet.ok

(***************************************************************************)
(* Secrecy of fewer than threshold shares                                  *)
(***************************************************************************)
\* C20: for every set of fewer than threshold share positions and every
\* assignment of field values to them, every secret is consistent with the
\* values: the same, non-zero number of coefficient draws makes split hand
\* out those values for each secret.
C20_FewerThanThresholdSharesHideSecret ==
    hdSeen.seen =>
        \A s, t \in Field : hdDraws[s] > 0 /\ hdDraws[s] = hdDraws[t]

\* Two shares of a threshold-3 split were seen; one draw fits each secret.
C20_Witness ==
    /\ hdSeen.seen
    /\ hdThreshold = 3
    /\ Cardinality(hdSeen.indices) = 2
    /\ \A s \in Field : hdDraws[s] = 1

(***************************************************************************)
(* combine on fewer than threshold shares                                  *)
(***************************************************************************)
\* C21: for 2 <= k <= n, combine on a non-empty set of fewer than k of the
\* shares of split(secret, k, n) returns a value different from secret.
C21_FewerThanKSharesNeverGiveSecret ==
    (/\ shPc = "combined"
     /\ shK >= 2
     /\ Cardinality(shPicked) < shK)
    => shResult # shSecret

\* What combine returns on the shares at the given positions when split drew
\* the given coefficients.
CombineOfDraw(random, positions) ==
    Combine(ShareMap(Split(shSecret, shK, shN, random), positions))

\* C21, amended: for 2 <= k <= n, what combine returns on a non-empty set of
\* fewer than k shares depends on the coefficients split drew: for some draw
\* it differs from secret and for some draw (all coefficients 0) it is secret.
C21_FewerThanKSharesGiveSecretForSomeDrawsOnly ==
    (/\ shPc = "combined"
     /\ shK >= 2
     /\ Cardinality(shPicked) < shK)
    => /\ \E random \in RandomCoefficients(shK) :
             CombineOfDraw(random, shPicked) # shSecret
       /\ \E random \in RandomCoefficients(shK) :
             CombineOfDraw(random, shPicked) = shSecret

\* Two shares of a 3-of-4 split with a polynomial that is not constant were
\* combined and gave the secret.
C21_Witness ==
    /\ shPc = "combined"
    /\ shK = 3 /\ shN = 4
    /\ Cardinality(shPicked) = 2
    /\ \E i \in 1..shN : shShares[i] # shSecret
    /\ shResult = shSecret

C23_CombineGetsAtLeastThresholdShares ==
    (rcRet.op = "executeRecovery" /\ rcRet.outcome \in {"key", "combine throws"})
    => Len(rcRet.shareMap) >= rcConfig.threshold

\* C24: after one setupRecovery, when a request has the approvals of at
\* least threshold active guardians and its time lock has passed,
\* executeRecovery returns the votingKey given to setupRecovery.
C24_ExecuteRecoveryReturnsVotingKey ==
    (rcRet.op = "executeRecovery" /\ rcRet.outcome = "key" /\ rcSetups = 1)
    => rcRet.key = rcKey

\* C25: when executeRecovery returns a key, the clock has reached the
\* request's unlockTime and at least threshold distinct guardians of the
\* voter, each active when it approved, have approved the request.
C25_KeyOnlyAfterUnlockAndThresholdApprovals ==
    (rcRet.op = "executeRecovery" /\ rcRet.outcome = "key")
    => LET request == rcRequests[rcRet.requestId]
       IN /\ rcNow >= request.unlockTime
          /\ Cardinality(request.qualified) >= rcConfig.threshold

C25_Witness ==
    /\ rcRet.op = "executeRecovery"
    /\ rcRet.outcome = "key"
    /\ rcConfig.threshold = 2
    /\ rcRequests[rcRet.requestId].unlockTime = 1
    /\ ~rcGuardians["g2"].active
    /\ Cardinality(rcRequests[rcRet.requestId].qualified) = 2

\* C26: recoverFromDevices, given the shares of at least k registered
\* devices (any of them, in any order), returns the votingKey given to
\* setupDevices with threshold k.
C26_RecoverFromDevicesReturnsVotingKey ==
    (/\ dvRet.op = "recoverFromDevices"
     /\ dvRet.outcome = "key"
     /\ Len(dvRet.deviceShares) >= dvThreshold)
    => dvRet.key = dvKey

\* C27: voting state is per election: castVote accepts a vote only for the
\* ballot its voter was registered for, and it refuses a voter as having
\* voted only when that voter's vote was accepted in the same ballot.
C27_VotingStateScopedToOneElection ==
    \A c \in CallIds :
        /\ calls[c].result = "Accepted"
              => voters[calls[c].voterId].ballotId = calls[c].ballotId
        /\ calls[c].result = "AlreadyVoted"
              => \E d \in CallIds \ {c} :
                     /\ calls[d].result = "Accepted"
                     /\ calls[d].voterId = calls[c].voterId
                     /\ calls[d].ballotId = calls[c].ballotId

\* C28: an insert whose index is below 0 or at least 2^depth throws, and the
\* step leaves the stored leaves and the root as they were.
C28_InsertOutOfRangeThrowsAndKeepsTree ==
    [][(smRet'.op = "insert" /\ (smRet'.index < 0 \/ smRet'.index >= Pow2(smDepth)))
       => (smRet'.outcome = "throws" /\ smLeaves' = smLeaves /\ smRoot' = smRoot)]_vars

C28_Witness ==
    /\ smRet.op = "insert"
    /\ smRet.outcome = "throws"
    /\ smRet.index < 0
    /\ smDepth = 2
    /\ DOMAIN smLeaves # {}

\* C29: generateProof with an index below 0 or at least 2^depth throws; it
\* returns no proof.
C29_GenerateProofOutOfRangeThrows ==
    (smRet.op = "generateProof" /\ InsertOutOfBounds(smRet.index, smDepth))
    => smRet.outcome = "throws"

\* C30: for an index of the tree, generateProof returns depth siblings, the
\* current root, the leaf stored at the index (the zero value when there is
\* none), and verified = true.
C30_GenerateProofInRangeIsVerified ==
    (smRet.op = "generateProof" /\ ~InsertOutOfBounds(smRet.index, smDepth))
    => /\ Len(smRet.proof) = smDepth
       /\ smRet.root = smRoot
       /\ smRet.leaf = LeafGet(smLeaves, smRet.index)
       /\ smRet.verified

\* C31: import of a whole export gives a tree with the depth and the root of
\* the exported tree, and get returns the same value for every index.
C31_ImportOfExportIsTheSameTree ==
    (smRet.op = "import" /\ Len(smRet.data.leaves) = Cardinality(DOMAIN smLeaves))
    => /\ smRet.tree.outcome = "tree"
       /\ smRet.tree.depth = smDepth
       /\ smRet.tree.root = smRoot
       /\ \A index \in SmIndices(smDepth) :
              SparseGet(smRet.tree.leaves, index) = SparseGet(smLeaves, index)

C31_Witness ==
    /\ smRet.op = "import"
    /\ smDepth = 2
    /\ Len(smRet.data.leaves) = 2
    /\ smRet.data.leaves[1][1] > smRet.data.leaves[2][1]
    /\ smRet.tree.root = smRoot

\* C32: import of data whose leaves do not reproduce the exported root (an
\* export cut short) fails; it gives no tree.
C32_ImportOfCorruptedExportFails ==
    (/\ smRet.op = "import"
     /\ ComputeRoot([i \in {smRet.data.leaves[k][1] : k \in DOMAIN smRet.data.leaves} |->
                        smLeaves[i]], smRet.data.depth) # smRet.data.root)
    => smRet.tree.outcome = "throws"

\* C33: a derivation throws exactly when an identifier it is given has not
\* the length of a credential.
C33_DerivationsRejectUnexpectedLengths ==
    /\ crRet.op = "generateNullifier"
          => (crRet.threw <=> (Len(crFirst) # CredentialLen \/ Len(crSecond) # CredentialLen))
    /\ crRet.op = "generateVoterCommitment"
          => (crRet.threw <=> Len(crFirst) # CredentialLen)
    /\ crRet.op = "createCommitment"
          => (crRet.threw <=> Len(crSecond) # CredentialLen)

\* C34: two pairs (voterId, ballotId) have the same nullifier exactly when
\* they are the same pair, whatever the lengths of the identifiers.
C34_NullifiersEqualExactlyForEqualPairs ==
    crRet.op = "generateNullifier"
    => \A voterId \in InputStrings, ballotId \in InputStrings :
           (GenerateNullifier(voterId, ballotId) = crRet.value)
           <=> (voterId = crFirst /\ ballotId = crSecond)

\* C35: once cancelRecovery has succeeded for a request, its status is
\* 'rejected' in every later state and executeRecovery returns no key for it.
C35_CancelledRequestStaysRejected ==
    \A requestId \in RequestIds :
        (rcRequests[requestId] # NoRequest /\ rcRequests[requestId].cancelled)
        => /\ rcRequests[requestId].status = "rejected"
           /\ ~(/\ rcRet.op = "executeRecovery"
                 /\ rcRet.outcome = "key"
                 /\ rcRet.requestId = requestId)

RECURSIVE SumOfCounts(_, _)
SumOfCounts(counts, i) ==
    IF i > Len(counts) THEN 0 ELSE counts[i] + SumOfCounts(counts, i + 1)

RECURSIVE SumOfAccepted(_)
SumOfAccepted(ns) ==
    IF ns = {} THEN 0
    ELSE LET n == CHOOSE x \in ns : TRUE
         IN rAccepted[n] + SumOfAccepted(ns \ {n})

C37_ReadinessAgreesWithTally ==
    /\ CanTally => TallyVotes # {}
    /\ \A status \in GetTallyStatus :
           status.ready => \E result \in TallyVotes :
                               result.candidateId = status.candidateId

\* C38: an updateBallotStatus call that throws leaves the ballot's status and
\* merkleRoot as the call found them, and every active ballot has at least
\* one candidate and a merkleRoot.
C38_ThrowingUpdateChangesNothing ==
    /\ (blRet.op = "updateBallotStatus" /\ blRet.outcome = "BadRequestException")
           => blBallots[blRet.ballotId] = blRet.before
    /\ \A ballotId \in DOMAIN blBallots :
           blBallots[ballotId].status = "active" =>
               /\ Len(BallotCandidates(ballotId)) >= 1
               /\ blBallots[ballotId].merkleRoot # NullRoot

\* The addVote calls that returned for voteHash.
AcceptedFor(voteHash) == {i \in 1..Len(rvPlaced) : rvPlaced[i].voteHash = voteHash}

\* C39: each vote hash is accepted by addVote at most once; an addVote of a
\* hash added before is rejected and leaves the stream, the verified set and
\* the published roots as they were; totalVotes equals verifiedCount; and
\* verifyInclusion(h, p) is true exactly when addVote placed h at position p.
C39_EachVoteHashAcceptedOnce ==
    /\ [](/\ \A voteHash \in VoteHashes : Cardinality(AcceptedFor(voteHash)) <= 1
          /\ GetState.totalVotes = GetState.verifiedCount
          /\ rvRet.op = "verifyInclusion" =>
                (rvRet.ok <=> \E i \in 1..Len(rvPlaced) :
                                 /\ rvPlaced[i].voteHash = rvRet.voteHash
                                 /\ rvPlaced[i].position = rvRet.position))
    /\ [][rvRet'.op = "addVote" /\ AcceptedFor(rvRet'.voteHash) # {} =>
              /\ rvRet'.outcome = "throws"
              /\ UNCHANGED <<imLeaves, imRoot, imCheckpoints, rvVerified, rvPublished>>]_vars

\* A hash added before was offered again after two were placed, and the call
\* was rejected.
C39_Witness ==
    /\ Len(rvPlaced) >= 2
    /\ rvRet.op = "addVote"
    /\ rvRet.outcome = "throws"
    /\ GetState.totalVotes = 2

\* C40: after any delegate, revokeDelegation and castDirectVote calls, with
\* any mix of ballot ids, no voter is found from itself along the
\* delegate-to-delegators index, and calculateVoteWeight(v) returns for
\* every voter v.
C40_ReverseIndexAcyclicAndWeightTerminates ==
    \A voterId \in DgVoters :
        /\ voterId \notin DelegatorsWithin(voterId, Cardinality(DgVoters))
        /\ CalculateVoteWeight(voterId).returns

====
